---- MODULE Spec2Model ----
(***************************************************************************)
(* A state-machine model of the roguelike in src/src/main.rs: the map      *)
(* generator, the frame loop of play_game (render, level-up, handle_keys,  *)
(* AI), combat, item use and the inventory.                                *)
(*                                                                         *)
(* Vectors (objects, inventory, rooms) are functions on 0..n-1, so that an *)
(* index means what it means in the source (PLAYER is index 0).            *)
(* Option<T> is a sequence: None is <<>> and Some(v) is <<v>>.             *)
(* The message log is kept per step: log holds the messages the last step  *)
(* appended to game.log, in order.                                         *)
(***************************************************************************)
EXTENDS Integers, Sequences, FiniteSets, TLC

VARIABLES
    objects,        \* Vec<Object>: the entities on the map, the player first
    inventory,      \* game.inventory
    map,            \* game.map: the set of cells <<x, y>> whose tile is not blocked
    explored,       \* game.map: the set of cells whose tile has explored = true
    dungeon_level,  \* game.dungeon_level
    log,            \* the messages appended to game.log by the last step
    fov,            \* tcod.fov: the cells its last compute_fov found visible
    previous_player_position,   \* play_game's local
    pc,             \* where the program stands: "render", "keys", "ai", "exit", ...
    ai_id,          \* play_game's loop variable id while pc = "ai"
    frame,          \* what the current frame did: key, player_alive, player_action, ...
    events,         \* what the last step did to entities: attacks, targets, moves
    conf,           \* the monster cast_confuse hit last and its AI activations since
    gen,            \* make_map's locals while a map is generated step by step
    session         \* main_menu: the arm that runs, its load_game calls, the save file

vars == <<objects, inventory, map, explored, dungeon_level, log, fov,
          previous_player_position, pc, ai_id, frame, events, conf, gen, session>>

----------------------------------------------------------------------------
(* Program constants *)

MAP_WIDTH == 80
MAP_HEIGHT == 43
TORCH_RADIUS == 10
ROOM_MAX_SIZE == 10
ROOM_MIN_SIZE == 6
MAX_ROOMS == 30
PLAYER == 0
HEAL_AMOUNT == 40
LIGHTNING_DAMAGE == 40
LIGHTNING_RANGE == 5
CONFUSE_RANGE == 8
CONFUSE_NUM_TURNS == 10
FIREBALL_RADIUS == 3
FIREBALL_DAMAGE == 25
LEVEL_UP_BASE == 200
LEVEL_UP_FACTOR == 150
INVENTORY_CAPACITY == 26

----------------------------------------------------------------------------
(* Option and Vec *)

None == <<>>
Some(v) == <<v>>
IsSome(o) == o /= <<>>
IsNone(o) == o = <<>>
Unwrap(o) == o[1]

VecLen(v) == Cardinality(DOMAIN v)
VecEmpty == [i \in {} |-> 0]
VecOf(e) == [i \in {0} |-> e]
VecPush(v, e) == [i \in 0..VecLen(v) |-> IF i = VecLen(v) THEN e ELSE v[i]]
VecRemove(v, k) == [i \in 0..(VecLen(v) - 2) |-> IF i < k THEN v[i] ELSE v[i + 1]]
VecSwapRemove(v, k) == [i \in 0..(VecLen(v) - 2) |-> IF i = k THEN v[VecLen(v) - 1] ELSE v[i]]
VecTruncate1(v) == [i \in {0} |-> v[0]]
SeqToVec(q) == [i \in 0..(Len(q) - 1) |-> q[i + 1]]

Min(a, b) == IF a < b THEN a ELSE b
Max(a, b) == IF a > b THEN a ELSE b
MinOf(S) == CHOOSE m \in S : \A n \in S : m <= n

Msg(text, name, n) == [text |-> text, name |-> name, n |-> n]
Ev(ev, a, b, n) == [ev |-> ev, a |-> a, b |-> b, n |-> n]

----------------------------------------------------------------------------
(* Objects *)

Fighter(max_hp, hp, defense, power, on_death, xp) ==
    [base_max_hp |-> max_hp, hp |-> hp, base_defense |-> defense,
     base_power |-> power, on_death |-> on_death, xp |-> xp]

Equipment(slot, equipped, power_bonus, defense_bonus, max_hp_bonus) ==
    [slot |-> slot, equipped |-> equipped, power_bonus |-> power_bonus,
     defense_bonus |-> defense_bonus, max_hp_bonus |-> max_hp_bonus]

AiBasic == [kind |-> "Basic"]
AiConfused(previous_ai, num_turns) ==
    [kind |-> "Confused", previous_ai |-> previous_ai, num_turns |-> num_turns]

ObjectNew(x, y, char, name, blocks) ==
    [x |-> x, y |-> y, char |-> char, name |-> name, blocks |-> blocks,
     alive |-> FALSE, fighter |-> None, ai |-> None, item |-> None,
     level |-> 1, equipment |-> None]

pos(o) == <<o.x, o.y>>
set_pos(o, x, y) == [o EXCEPT !.x = x, !.y = y]

\* distance_to and distance return sqrt(DistSq) as f32; every comparison the
\* code makes with them is made here on the squares (all values are >= 0).
DistSq(o, x, y) == (x - o.x) * (x - o.x) + (y - o.y) * (y - o.y)

RemainsOf(name) ==
    CASE name = "orc" -> "remains of orc"
      [] name = "troll" -> "remains of troll"
      [] OTHER -> "remains of remains"

----------------------------------------------------------------------------
(* Effective stats: the base value plus the bonuses of the equipped items *)

\* get_all_equipped without the test of the name.
get_all_equipped_any(o, inv) ==
    {i \in DOMAIN inv : IsSome(inv[i].equipment) /\ Unwrap(inv[i].equipment).equipped}

get_all_equipped(o, inv) ==
    IF o.name = "player"
    THEN {i \in DOMAIN inv : IsSome(inv[i].equipment) /\ Unwrap(inv[i].equipment).equipped}
    ELSE {}

RECURSIVE SumPower(_, _)
SumPower(inv, S) ==
    IF S = {} THEN 0
    ELSE LET i == MinOf(S) IN Unwrap(inv[i].equipment).power_bonus + SumPower(inv, S \ {i})

RECURSIVE SumDefense(_, _)
SumDefense(inv, S) ==
    IF S = {} THEN 0
    ELSE LET i == MinOf(S) IN Unwrap(inv[i].equipment).defense_bonus + SumDefense(inv, S \ {i})

RECURSIVE SumMaxHp(_, _)
SumMaxHp(inv, S) ==
    IF S = {} THEN 0
    ELSE LET i == MinOf(S) IN Unwrap(inv[i].equipment).max_hp_bonus + SumMaxHp(inv, S \ {i})

power(o, inv) ==
    (IF IsSome(o.fighter) THEN Unwrap(o.fighter).base_power ELSE 0)
        + SumPower(inv, get_all_equipped(o, inv))

defense(o, inv) ==
    (IF IsSome(o.fighter) THEN Unwrap(o.fighter).base_defense ELSE 0)
        + SumDefense(inv, get_all_equipped(o, inv))

max_hp(o, inv) ==
    (IF IsSome(o.fighter) THEN Unwrap(o.fighter).base_max_hp ELSE 0)
        + SumMaxHp(inv, get_all_equipped(o, inv))

----------------------------------------------------------------------------
(* Damage, death, attack, heal.  Each returns the changed object(s) and    *)
(* the messages it logs.                                                   *)

player_death(o) ==
    [obj |-> [o EXCEPT !.char = "%"],
     log |-> <<Msg("You died!", "", 0)>>]

\* monster_death without the two assignments of None.
monster_death_keeps_fighter(o) ==
    [obj |-> [o EXCEPT !.char = "%", !.blocks = FALSE, !.name = RemainsOf(o.name)],
     log |-> <<Msg("is dead! You gain experience points.", o.name, Unwrap(o.fighter).xp)>>]

monster_death(o) ==
    [obj |-> [o EXCEPT !.char = "%", !.blocks = FALSE, !.fighter = None,
                       !.ai = None, !.name = RemainsOf(o.name)],
     log |-> <<Msg("is dead! You gain experience points.", o.name, Unwrap(o.fighter).xp)>>]

callback(on_death, o) ==
    IF on_death = "Player" THEN player_death(o) ELSE monster_death(o)

take_damage(o, damage) ==
    LET o1 == IF IsSome(o.fighter) /\ damage > 0
              THEN [o EXCEPT !.fighter = Some([Unwrap(o.fighter) EXCEPT !.hp = @ - damage])]
              ELSE o
    IN  IF IsSome(o1.fighter) /\ Unwrap(o1.fighter).hp <= 0
        THEN LET fighter == Unwrap(o1.fighter)
                 died == callback(fighter.on_death, [o1 EXCEPT !.alive = FALSE])
             IN  [obj |-> died.obj, log |-> died.log, xp |-> Some(fighter.xp)]
        ELSE [obj |-> o1, log |-> <<>>, xp |-> None]

AddXp(o, xp) == [o EXCEPT !.fighter = Some([Unwrap(o.fighter) EXCEPT !.xp = @ + xp])]

attack(attacker, target, inv) ==
    LET damage == power(attacker, inv) - defense(target, inv)
    IN  IF damage > 0
        THEN LET hit == take_damage(target, damage)
             IN  [attacker |-> IF IsSome(hit.xp) THEN AddXp(attacker, Unwrap(hit.xp))
                                                 ELSE attacker,
                  target |-> hit.obj,
                  damage |-> damage,
                  log |-> <<Msg("attacks for hit points.", attacker.name, damage)>> \o hit.log]
        ELSE [attacker |-> attacker, target |-> target, damage |-> damage,
              log |-> <<Msg("attacks but it has no effect!", attacker.name, 0)>>]

\* heal without the test against max_hp.
heal_uncapped(o, amount, inv) ==
    IF IsSome(o.fighter)
    THEN LET f == Unwrap(o.fighter)
         IN  [o EXCEPT !.fighter = Some([f EXCEPT !.hp = f.hp + amount])]
    ELSE o

heal(o, amount, inv) ==
    IF IsSome(o.fighter)
    THEN LET f == Unwrap(o.fighter)
             hp == IF f.hp + amount > max_hp(o, inv) THEN max_hp(o, inv) ELSE f.hp + amount
         IN  [o EXCEPT !.fighter = Some([f EXCEPT !.hp = hp])]
    ELSE o

----------------------------------------------------------------------------
(* Equipment *)

equip(o) ==
    IF IsNone(o.item)
    THEN [obj |-> o, log |-> <<Msg("Can't equip because it's not an Item.", o.name, 0)>>]
    ELSE IF IsSome(o.equipment)
         THEN IF ~Unwrap(o.equipment).equipped
              THEN [obj |-> [o EXCEPT !.equipment = Some([Unwrap(o.equipment) EXCEPT !.equipped = TRUE])],
                    log |-> <<Msg("Equipped", o.name, 0)>>]
              ELSE [obj |-> o, log |-> <<>>]
         ELSE [obj |-> o, log |-> <<Msg("Can't equip because it's not an Equipment.", o.name, 0)>>]

dequip(o) ==
    IF IsNone(o.item)
    THEN [obj |-> o, log |-> <<Msg("Can't dequip because it's not an Item.", o.name, 0)>>]
    ELSE IF IsSome(o.equipment)
         THEN IF Unwrap(o.equipment).equipped
              THEN [obj |-> [o EXCEPT !.equipment = Some([Unwrap(o.equipment) EXCEPT !.equipped = FALSE])],
                    log |-> <<Msg("Dequipped", o.name, 0)>>]
              ELSE [obj |-> o, log |-> <<>>]
         ELSE [obj |-> o, log |-> <<Msg("Can't dequip because it's not an Equipment.", o.name, 0)>>]

\* The first inventory index whose item is equipped in the slot, or None.
get_equipped_in_slot(slot, inv) ==
    LET S == {i \in DOMAIN inv : IsSome(inv[i].equipment)
                                  /\ Unwrap(inv[i].equipment).equipped
                                  /\ Unwrap(inv[i].equipment).slot = slot}
    IN  IF S = {} THEN None ELSE Some(MinOf(S))

----------------------------------------------------------------------------
(* Rooms and tiles *)

RectNew(x, y, w, h) == [x1 |-> x, y1 |-> y, x2 |-> x + w, y2 |-> y + h]

center(r) == <<(r.x1 + r.x2) \div 2, (r.y1 + r.y2) \div 2>>

\* intersects_with with strict comparisons.
intersects_with_strict(r, other) ==
    (r.x1 < other.x2) /\ (r.x2 > other.x1) /\ (r.y1 < other.y2) /\ (r.y2 > other.y1)

intersects_with(r, other) ==
    (r.x1 <= other.x2) /\ (r.x2 >= other.x1) /\ (r.y1 <= other.y2) /\ (r.y2 >= other.y1)

Interior(r) == {<<x, y>> : x \in (r.x1 + 1)..(r.x2 - 1), y \in (r.y1 + 1)..(r.y2 - 1)}

create_room(room, m) == m \cup Interior(room)

\* create_h_tunnel without the min and max: the range x1 .. x2 + 1 as given.
create_h_tunnel_unordered(x1, x2, y, m) == m \cup {<<x, y>> : x \in x1..x2}

create_h_tunnel(x1, x2, y, m) == m \cup {<<x, y>> : x \in Min(x1, x2)..Max(x1, x2)}

create_v_tunnel(y1, y2, x, m) == m \cup {<<x, y>> : y \in Min(y1, y2)..Max(y1, y2)}

is_blocked(x, y, m, objs) ==
    \/ <<x, y>> \notin m
    \/ \E i \in DOMAIN objs : objs[i].blocks /\ pos(objs[i]) = <<x, y>>

\* move_by without the test of is_blocked.
move_by_through(id, dx, dy, m, objs) ==
    [objs EXCEPT ![id] = set_pos(@, objs[id].x + dx, objs[id].y + dy)]

move_by(id, dx, dy, m, objs) ==
    LET x == objs[id].x
        y == objs[id].y
    IN  IF ~is_blocked(x + dx, y + dy, m, objs)
        THEN [objs EXCEPT ![id] = set_pos(@, x + dx, y + dy)]
        ELSE objs

----------------------------------------------------------------------------
(* Depth tables and weighted choice *)

Transition(level, value) == [level |-> level, value |-> value]

\* from_dungeon_level without rev(): the first pair at or above which the
\* level lies.
from_dungeon_level_first(table, level) ==
    LET S == {i \in 1..Len(table) : level >= table[i].level}
    IN  IF S = {} THEN 0 ELSE table[CHOOSE i \in S : \A j \in S : i <= j].value

from_dungeon_level(table, level) ==
    LET S == {i \in 1..Len(table) : level >= table[i].level}
    IN  IF S = {} THEN 0 ELSE table[CHOOSE i \in S : \A j \in S : j <= i].value

Weighted(weight, item) == [weight |-> weight, item |-> item]

RECURSIVE WeightUpTo(_, _)
WeightUpTo(choices, i) ==
    IF i = 0 THEN 0 ELSE choices[i].weight + WeightUpTo(choices, i - 1)

TotalWeight(choices) == WeightUpTo(choices, Len(choices))

\* WeightedChoice::ind_sample with the sample drawn from 0 .. total weight - 1
\* given as roll: the first item whose running weight exceeds the sample.
ind_sample(choices, roll) ==
    choices[MinOf({i \in 1..Len(choices) : roll < WeightUpTo(choices, i)})].item

max_monsters(level) ==
    from_dungeon_level(<<Transition(1, 2), Transition(4, 3), Transition(6, 5)>>, level)

troll_chance(level) ==
    from_dungeon_level(<<Transition(3, 15), Transition(5, 30), Transition(7, 60)>>, level)

monster_chances(level) ==
    <<Weighted(80, "orc"), Weighted(troll_chance(level), "troll")>>

max_items(level) ==
    from_dungeon_level(<<Transition(1, 1), Transition(4, 2)>>, level)

item_chances(level) ==
    <<Weighted(70, "Heal"),
      Weighted(from_dungeon_level(<<Transition(4, 25)>>, level), "Lightning"),
      Weighted(from_dungeon_level(<<Transition(6, 25)>>, level), "Fireball"),
      Weighted(from_dungeon_level(<<Transition(2, 10)>>, level), "Confuse"),
      Weighted(from_dungeon_level(<<Transition(4, 5)>>, level), "Sword"),
      Weighted(from_dungeon_level(<<Transition(8, 15)>>, level), "Shield")>>

MakeMonster(kind, x, y) ==
    IF kind = "orc"
    THEN [ObjectNew(x, y, "o", "orc", TRUE) EXCEPT
            !.fighter = Some(Fighter(20, 20, 0, 4, "Monster", 35)),
            !.ai = Some(AiBasic), !.alive = TRUE]
    ELSE [ObjectNew(x, y, "T", "troll", TRUE) EXCEPT
            !.fighter = Some(Fighter(30, 30, 2, 8, "Monster", 100)),
            !.ai = Some(AiBasic), !.alive = TRUE]

MakeItem(kind, x, y) ==
    CASE kind = "Heal" ->
            [ObjectNew(x, y, "!", "healing potion", FALSE) EXCEPT !.item = Some("Heal")]
      [] kind = "Lightning" ->
            [ObjectNew(x, y, "#", "scroll of lightning bolt", FALSE) EXCEPT !.item = Some("Lightning")]
      [] kind = "Fireball" ->
            [ObjectNew(x, y, "#", "scroll of fireball", FALSE) EXCEPT !.item = Some("Fireball")]
      [] kind = "Confuse" ->
            [ObjectNew(x, y, "#", "scroll of confusion", FALSE) EXCEPT !.item = Some("Confuse")]
      [] kind = "Sword" ->
            [ObjectNew(x, y, "/", "sword", FALSE) EXCEPT
                !.item = Some("Sword"),
                !.equipment = Some(Equipment("RightHand", FALSE, 3, 0, 0))]
      [] OTHER ->
            [ObjectNew(x, y, "[", "shield", FALSE) EXCEPT
                !.item = Some("Shield"),
                !.equipment = Some(Equipment("LeftHand", FALSE, 0, 1, 0))]

----------------------------------------------------------------------------
(* Map generation.  The random draws of one iteration of make_map's loop   *)
(* are an attempt: [w, h, x, y, coin, monsters, items], where monsters and *)
(* items are the draws <<x, y, roll>> of place_objects, as many as its     *)
(* gen_range for the number of monsters (items) returned.                  *)

Draw(x, y, roll) == [x |-> x, y |-> y, roll |-> roll]

Attempt(x, y, w, h, coin, monsters, items) ==
    [x |-> x, y |-> y, w |-> w, h |-> h, coin |-> coin,
     monsters |-> monsters, items |-> items]

\* The ranges with gen_range(0, MAP_WIDTH - w + 1) and gen_range(0,
\* MAP_HEIGHT - h + 1) for the corner of the room.
ValidAttempt_to_the_edge(a, level) ==
    /\ a.w \in ROOM_MIN_SIZE..ROOM_MAX_SIZE
    /\ a.h \in ROOM_MIN_SIZE..ROOM_MAX_SIZE
    /\ a.x \in 0..(MAP_WIDTH - a.w)
    /\ a.y \in 0..(MAP_HEIGHT - a.h)
    /\ Len(a.monsters) <= max_monsters(level)
    /\ Len(a.items) <= max_items(level)
    /\ \A i \in 1..Len(a.monsters) :
          /\ a.monsters[i].x \in (a.x + 1)..(a.x + a.w - 1)
          /\ a.monsters[i].y \in (a.y + 1)..(a.y + a.h - 1)
          /\ a.monsters[i].roll \in 0..(TotalWeight(monster_chances(level)) - 1)
    /\ \A i \in 1..Len(a.items) :
          /\ a.items[i].x \in (a.x + 1)..(a.x + a.w - 1)
          /\ a.items[i].y \in (a.y + 1)..(a.y + a.h - 1)
          /\ a.items[i].roll \in 0..(TotalWeight(item_chances(level)) - 1)

\* The draws lie in the ranges the code draws them from.
ValidAttempt(a, level) ==
    /\ a.w \in ROOM_MIN_SIZE..ROOM_MAX_SIZE
    /\ a.h \in ROOM_MIN_SIZE..ROOM_MAX_SIZE
    /\ a.x \in 0..(MAP_WIDTH - a.w - 1)
    /\ a.y \in 0..(MAP_HEIGHT - a.h - 1)
    /\ Len(a.monsters) <= max_monsters(level)
    /\ Len(a.items) <= max_items(level)
    /\ \A i \in 1..Len(a.monsters) :
          /\ a.monsters[i].x \in (a.x + 1)..(a.x + a.w - 1)
          /\ a.monsters[i].y \in (a.y + 1)..(a.y + a.h - 1)
          /\ a.monsters[i].roll \in 0..(TotalWeight(monster_chances(level)) - 1)
    /\ \A i \in 1..Len(a.items) :
          /\ a.items[i].x \in (a.x + 1)..(a.x + a.w - 1)
          /\ a.items[i].y \in (a.y + 1)..(a.y + a.h - 1)
          /\ a.items[i].roll \in 0..(TotalWeight(item_chances(level)) - 1)

RECURSIVE PlaceMonsters(_, _, _, _)
PlaceMonsters(draws, m, objs, level) ==
    IF draws = <<>> THEN objs
    ELSE LET d == Head(draws)
             placed == IF ~is_blocked(d.x, d.y, m, objs)
                       THEN VecPush(objs, MakeMonster(ind_sample(monster_chances(level), d.roll), d.x, d.y))
                       ELSE objs
         IN  PlaceMonsters(Tail(draws), m, placed, level)

RECURSIVE PlaceItems(_, _, _, _)
PlaceItems(draws, m, objs, level) ==
    IF draws = <<>> THEN objs
    ELSE LET d == Head(draws)
             placed == IF ~is_blocked(d.x, d.y, m, objs)
                       THEN VecPush(objs, MakeItem(ind_sample(item_chances(level), d.roll), d.x, d.y))
                       ELSE objs
         IN  PlaceItems(Tail(draws), m, placed, level)

place_objects(a, m, objs, level) ==
    PlaceItems(a.items, m, PlaceMonsters(a.monsters, m, objs, level), level)

\* make_map's locals: the map, the accepted rooms, the objects, the start.
GenStart(objs) ==
    [map |-> {}, rooms |-> <<>>, objects |-> VecTruncate1(objs),
     starting_position |-> <<0, 0>>]

\* One iteration of make_map's loop.
MakeRoom(g, a, level) ==
    LET new_room == RectNew(a.x, a.y, a.w, a.h)
        failed == \E i \in 1..Len(g.rooms) : intersects_with(new_room, g.rooms[i])
    IN  IF failed THEN g
        ELSE LET m1 == create_room(new_room, g.map)
                 objs == place_objects(a, m1, g.objects, level)
                 new == center(new_room)
                 prev == center(g.rooms[Len(g.rooms)])
                 m2 == IF g.rooms = <<>> THEN m1
                       ELSE IF a.coin
                            THEN create_v_tunnel(prev[2], new[2], new[1],
                                    create_h_tunnel(prev[1], new[1], prev[2], m1))
                            ELSE create_h_tunnel(prev[1], new[1], new[2],
                                    create_v_tunnel(prev[2], new[2], prev[1], m1))
             IN  [map |-> m2,
                  rooms |-> Append(g.rooms, new_room),
                  objects |-> objs,
                  starting_position |-> IF g.rooms = <<>> THEN new ELSE g.starting_position]

\* The end of make_map with the stairs at the first room's centre.
PlaceStairs_at_first(g) ==
    LET first == center(g.rooms[1])
        stairs == ObjectNew(first[1], first[2], ">", "stairs", FALSE)
        objs == VecPush(g.objects, stairs)
    IN  [g EXCEPT !.objects = [objs EXCEPT ![PLAYER] =
                        set_pos(@, g.starting_position[1], g.starting_position[2])]]

\* The end of make_map: the stairs at the last room's centre, the player at the start.
PlaceStairs(g) ==
    LET last == center(g.rooms[Len(g.rooms)])
        stairs == ObjectNew(last[1], last[2], ">", "stairs", FALSE)
        objs == VecPush(g.objects, stairs)
    IN  [g EXCEPT !.objects = [objs EXCEPT ![PLAYER] =
                        set_pos(@, g.starting_position[1], g.starting_position[2])]]

\* The iterations of make_map's loop from the i-th on.
RECURSIVE MakeRooms(_, _, _, _)
MakeRooms(g, script, i, level) ==
    IF i > Len(script) THEN g
    ELSE LET made == MakeRoom(g, script[i], level)
         IN  IF Len(made.rooms) > 0 THEN MakeRooms(made, script, i + 1, level) ELSE made

\* make_map with its MAX_ROOMS attempts given as script.
make_map(objs, level, script) == PlaceStairs(MakeRooms(GenStart(objs), script, 1, level))

----------------------------------------------------------------------------
(* Field of view: tcod's compute_fov(x, y, TORCH_RADIUS, FOV_LIGHT_WALLS,  *)
(* FovAlgorithm::Basic), circular ray casting: a line is cast from the      *)
(* origin to every cell of the border of the square of the radius; a cell  *)
(* of a line is lit when it is within the radius and every cell of the     *)
(* line before it is transparent, so the wall a line ends on is lit; then  *)
(* the walls beside a lit transparent cell, on its side away from the      *)
(* origin, are lit.                                                        *)

Abs(n) == IF n < 0 THEN -n ELSE n

Sign(n) == IF n > 0 THEN 1 ELSE IF n < 0 THEN -1 ELSE 0

InMap(c) == c[1] \in 0..(MAP_WIDTH - 1) /\ c[2] \in 0..(MAP_HEIGHT - 1)

\* The cells the line from <<px, py>> to t lights.  The line is Bresenham's:
\* one step along the longer axis, the error term starting at its length,
\* a step along the other axis when the term falls below 0.  It lights its
\* cells up to the radius and up to the first cell that is not transparent,
\* that cell included.
CastRay(m, px, py, t) ==
    LET ax == Abs(t[1] - px)
        ay == Abs(t[2] - py)
        sx == Sign(t[1] - px)
        sy == Sign(t[2] - py)
        n == Max(ax, ay)
        LineCell(i) ==
            IF ax > ay
            THEN <<px + sx * i, py + sy * ((2 * ay * i + ax - 1) \div (2 * ax))>>
            ELSE <<px + sx * ((2 * ax * i + ay - 1) \div (2 * ay)), py + sy * i>>
        RECURSIVE From(_)
        From(i) ==
            IF i > n THEN {}
            ELSE LET c == LineCell(i)
                 IN  IF (c[1] - px) * (c[1] - px) + (c[2] - py) * (c[2] - py)
                           > TORCH_RADIUS * TORCH_RADIUS
                     THEN {}
                     ELSE IF c \in m THEN {c} \cup From(i + 1) ELSE {c}
    IN  From(1)

\* The ends of the lines: the top row and the right column of the square,
\* the bottom row from its right end to the left edge of the map, the left
\* column from its bottom up to the second row of the map.
RayTargets(px, py) ==
    LET xmin == Max(0, px - TORCH_RADIUS)
        ymin == Max(0, py - TORCH_RADIUS)
        xmax == Min(MAP_WIDTH, px + TORCH_RADIUS + 1)
        ymax == Min(MAP_HEIGHT, py + TORCH_RADIUS + 1)
    IN  {<<x, ymin>> : x \in xmin..(xmax - 1)}
           \cup {<<xmax - 1, y>> : y \in (ymin + 1)..(ymax - 1)}
           \cup {<<x, ymax - 1>> : x \in 0..(xmax - 2)}
           \cup {<<xmin, y>> : y \in 1..(ymax - 2)}

\* The walls lit beside the lit transparent cells of one quarter of the
\* square, the box x0..x1, y0..y1: the neighbours towards <<dx, dy>> that
\* lie in the box.
PostProc(m, lit, x0, y0, x1, y1, dx, dy) ==
    LET InBox(c) == c[1] \in x0..x1 /\ c[2] \in y0..y1
        from == {c \in lit : InBox(c) /\ c \in m}
    IN  {c \in UNION {{<<f[1] + dx, f[2]>>, <<f[1], f[2] + dy>>, <<f[1] + dx, f[2] + dy>>} :
                          f \in from} :
            InBox(c) /\ c \notin m}

compute_fov(m, px, py) ==
    LET xmin == Max(0, px - TORCH_RADIUS)
        ymin == Max(0, py - TORCH_RADIUS)
        xmax == Min(MAP_WIDTH, px + TORCH_RADIUS + 1)
        ymax == Min(MAP_HEIGHT, py + TORCH_RADIUS + 1)
        lit == {<<px, py>>} \cup UNION {CastRay(m, px, py, t) : t \in RayTargets(px, py)}
    IN  lit \cup PostProc(m, lit, xmin, ymin, px, py, -1, -1)
            \cup PostProc(m, lit, px, ymin, xmax - 1, py, 1, -1)
            \cup PostProc(m, lit, xmin, py, px, ymax - 1, -1, 1)
            \cup PostProc(m, lit, px, py, xmax - 1, ymax - 1, 1, 1)

----------------------------------------------------------------------------
(* Picking up, dropping and using items.  Each returns the new objects and *)
(* inventory, the messages it logs and what it did to entities.            *)

\* pick_item_up with > in place of >= in its test of the inventory's length.
pick_item_up_one_more(object_id, objs, inv) ==
    IF VecLen(inv) > INVENTORY_CAPACITY
    THEN [objects |-> objs, inventory |-> inv,
          log |-> <<Msg("Your inventory is full, cannot pick up.", objs[object_id].name, 0)>>]
    ELSE LET item == objs[object_id]
             index == VecLen(inv)
             inv1 == VecPush(inv, item)
             picked == <<Msg("You picked up!", item.name, 0)>>
         IN  IF IsSome(item.equipment)
                   /\ IsNone(get_equipped_in_slot(Unwrap(item.equipment).slot, inv1))
             THEN [objects |-> VecSwapRemove(objs, object_id),
                   inventory |-> [inv1 EXCEPT ![index] = equip(inv1[index]).obj],
                   log |-> picked \o equip(inv1[index]).log]
             ELSE [objects |-> VecSwapRemove(objs, object_id),
                   inventory |-> inv1, log |-> picked]

pick_item_up(object_id, objs, inv) ==
    IF VecLen(inv) >= INVENTORY_CAPACITY
    THEN [objects |-> objs, inventory |-> inv,
          log |-> <<Msg("Your inventory is full, cannot pick up.", objs[object_id].name, 0)>>]
    ELSE LET item == objs[object_id]
             index == VecLen(inv)
             inv1 == VecPush(inv, item)
             picked == <<Msg("You picked up!", item.name, 0)>>
         IN  IF IsSome(item.equipment)
                   /\ IsNone(get_equipped_in_slot(Unwrap(item.equipment).slot, inv1))
             THEN [objects |-> VecSwapRemove(objs, object_id),
                   inventory |-> [inv1 EXCEPT ![index] = equip(inv1[index]).obj],
                   log |-> picked \o equip(inv1[index]).log]
             ELSE [objects |-> VecSwapRemove(objs, object_id),
                   inventory |-> inv1, log |-> picked]

\* drop_item without the dequip.
drop_item_equipped(inventory_id, objs, inv) ==
    LET item == inv[inventory_id]
        placed == set_pos(item, objs[PLAYER].x, objs[PLAYER].y)
    IN  [objects |-> VecPush(objs, placed),
         inventory |-> VecRemove(inv, inventory_id),
         log |-> <<Msg("You dropped.", item.name, 0)>>]

drop_item(inventory_id, objs, inv) ==
    LET item == inv[inventory_id]
        off == IF IsSome(item.equipment) THEN dequip(item) ELSE [obj |-> item, log |-> <<>>]
        placed == set_pos(off.obj, objs[PLAYER].x, objs[PLAYER].y)
    IN  [objects |-> VecPush(objs, placed),
         inventory |-> VecRemove(inv, inventory_id),
         log |-> off.log \o <<Msg("You dropped.", item.name, 0)>>]

\* toggle_equipment without the dequip of the item that holds the slot.
toggle_equipment_no_swap(inventory_id, inv) ==
    IF IsNone(inv[inventory_id].equipment)
    THEN [inventory |-> inv, log |-> <<>>, result |-> "Cancelled"]
    ELSE LET tog == IF Unwrap(inv[inventory_id].equipment).equipped
                    THEN dequip(inv[inventory_id])
                    ELSE equip(inv[inventory_id])
         IN  [inventory |-> [inv EXCEPT ![inventory_id] = tog.obj],
              log |-> tog.log, result |-> "UsedAndKept"]

toggle_equipment(inventory_id, inv) ==
    IF IsNone(inv[inventory_id].equipment)
    THEN [inventory |-> inv, log |-> <<>>, result |-> "Cancelled"]
    ELSE LET equipment == Unwrap(inv[inventory_id].equipment)
             old == get_equipped_in_slot(equipment.slot, inv)
             off == IF IsSome(old) THEN dequip(inv[Unwrap(old)]) ELSE [obj |-> inv[0], log |-> <<>>]
             inv1 == IF IsSome(old) THEN [inv EXCEPT ![Unwrap(old)] = off.obj] ELSE inv
             tog == IF equipment.equipped THEN dequip(inv1[inventory_id])
                                          ELSE equip(inv1[inventory_id])
         IN  [inventory |-> [inv1 EXCEPT ![inventory_id] = tog.obj],
              log |-> off.log \o tog.log,
              result |-> "UsedAndKept"]

cast_heal(objs, inv) ==
    IF IsSome(objs[PLAYER].fighter)
    THEN IF Unwrap(objs[PLAYER].fighter).hp = max_hp(objs[PLAYER], inv)
         THEN [objects |-> objs, result |-> "Cancelled",
               log |-> <<Msg("You are already at full health.", "", 0)>>]
         ELSE [objects |-> [objs EXCEPT ![PLAYER] = heal(@, HEAL_AMOUNT, inv)],
               result |-> "UsedUp",
               log |-> <<Msg("Your wounds start to feel better!", "", 0)>>]
    ELSE [objects |-> objs, result |-> "Cancelled", log |-> <<>>]

\* The nearest monster in the field of view whose distance is below
\* max_range + 1, the lowest index among equals; None if there is none.
closest_monster(max_range, objs, visible) ==
    LET C == {i \in DOMAIN objs :
                /\ i /= PLAYER
                /\ IsSome(objs[i].fighter) /\ IsSome(objs[i].ai)
                /\ pos(objs[i]) \in visible
                /\ DistSq(objs[PLAYER], objs[i].x, objs[i].y) < (max_range + 1) * (max_range + 1)}
        D(i) == DistSq(objs[PLAYER], objs[i].x, objs[i].y)
    IN  IF C = {} THEN None
        ELSE Some(MinOf({i \in C : \A j \in C : D(i) <= D(j)}))

cast_lightning(objs, visible) ==
    LET monster_id == closest_monster(LIGHTNING_RANGE, objs, visible)
    IN  IF IsSome(monster_id)
        THEN LET id == Unwrap(monster_id)
                 hit == take_damage(objs[id], LIGHTNING_DAMAGE)
                 objs1 == [objs EXCEPT ![id] = hit.obj]
             IN  [objects |-> IF IsSome(hit.xp)
                              THEN [objs1 EXCEPT ![PLAYER] = AddXp(@, Unwrap(hit.xp))]
                              ELSE objs1,
                  result |-> "UsedUp",
                  log |-> <<Msg("A lightning bolt strikes!", objs[id].name, LIGHTNING_DAMAGE)>> \o hit.log,
                  events |-> <<Ev("lightning", PLAYER, id, LIGHTNING_DAMAGE)>>]
        ELSE [objects |-> objs, result |-> "Cancelled",
              log |-> <<Msg("No enemy is close enough to strike.", "", 0)>>,
              events |-> <<>>]

\* target_tile's loop ends with a left click on a visible tile in range, or
\* with a right click or Escape.  click is how it ends: Some(cell) or None;
\* a click on a tile it does not accept leaves the loop running, and is
\* modelled as followed by the cancel.  max_range is None or Some(range).
target_tile(click, objs, visible, max_range) ==
    IF IsSome(click)
          /\ Unwrap(click)[1] < MAP_WIDTH /\ Unwrap(click)[2] < MAP_HEIGHT
          /\ Unwrap(click) \in visible
          /\ (IsSome(max_range) =>
                DistSq(objs[PLAYER], Unwrap(click)[1], Unwrap(click)[2])
                    <= Unwrap(max_range) * Unwrap(max_range))
    THEN click
    ELSE None

target_monster(click, objs, visible, max_range) ==
    LET tile == target_tile(click, objs, visible, max_range)
        M == IF IsSome(tile)
             THEN {id \in DOMAIN objs : pos(objs[id]) = Unwrap(tile)
                                         /\ IsSome(objs[id].fighter) /\ id /= PLAYER}
             ELSE {}
    IN  IF M = {} THEN None ELSE Some(MinOf(M))

cast_confuse(click, objs, visible) ==
    LET monster_id == target_monster(click, objs, visible, Some(CONFUSE_RANGE))
        asked == <<Msg("Left-click an enemy to confuse it, or right-click to cancel.", "", 0)>>
    IN  IF IsSome(monster_id)
        THEN LET id == Unwrap(monster_id)
                 old_ai == IF IsSome(objs[id].ai) THEN Unwrap(objs[id].ai) ELSE AiBasic
             IN  [objects |-> [objs EXCEPT ![id].ai = Some(AiConfused(old_ai, CONFUSE_NUM_TURNS))],
                  result |-> "UsedUp",
                  log |-> asked \o <<Msg("The eyes look vacant, as he starts to stumble around!",
                                          objs[id].name, 0)>>,
                  events |-> <<Ev("confuse", PLAYER, id, 0)>>]
        ELSE [objects |-> objs, result |-> "Cancelled",
              log |-> asked \o <<Msg("No enemy is close enough to strike.", "", 0)>>,
              events |-> <<>>]

\* The loop of cast_fireball over the objects from index id on.
\* The loop of cast_fireball without the test id != PLAYER: the player's own
\* experience value is counted when the fireball kills the player.
RECURSIVE Burn_awards_player(_, _, _, _)
Burn_awards_player(id, x, y, acc) ==
    IF id >= VecLen(acc.objects) THEN acc
    ELSE LET obj == acc.objects[id]
         IN  IF DistSq(obj, x, y) <= FIREBALL_RADIUS * FIREBALL_RADIUS /\ IsSome(obj.fighter)
             THEN LET hit == take_damage(obj, FIREBALL_DAMAGE)
                  IN  Burn_awards_player(id + 1, x, y,
                        [objects |-> [acc.objects EXCEPT ![id] = hit.obj],
                         xp_to_gain |-> IF IsSome(hit.xp)
                                        THEN acc.xp_to_gain + Unwrap(hit.xp)
                                        ELSE acc.xp_to_gain,
                         log |-> acc.log \o <<Msg("gets burned.", obj.name, FIREBALL_DAMAGE)>> \o hit.log,
                         events |-> Append(acc.events, Ev("fireball", PLAYER, id, FIREBALL_DAMAGE))])
             ELSE Burn_awards_player(id + 1, x, y, acc)

RECURSIVE Burn(_, _, _, _)
Burn(id, x, y, acc) ==
    IF id >= VecLen(acc.objects) THEN acc
    ELSE LET obj == acc.objects[id]
         IN  IF DistSq(obj, x, y) <= FIREBALL_RADIUS * FIREBALL_RADIUS /\ IsSome(obj.fighter)
             THEN LET hit == take_damage(obj, FIREBALL_DAMAGE)
                  IN  Burn(id + 1, x, y,
                        [objects |-> [acc.objects EXCEPT ![id] = hit.obj],
                         xp_to_gain |-> IF IsSome(hit.xp) /\ id /= PLAYER
                                        THEN acc.xp_to_gain + Unwrap(hit.xp)
                                        ELSE acc.xp_to_gain,
                         log |-> acc.log \o <<Msg("gets burned.", obj.name, FIREBALL_DAMAGE)>> \o hit.log,
                         events |-> Append(acc.events, Ev("fireball", PLAYER, id, FIREBALL_DAMAGE))])
             ELSE Burn(id + 1, x, y, acc)

cast_fireball(click, objs, visible) ==
    LET tile == target_tile(click, objs, visible, None)
        asked == <<Msg("Left-click a target tile for the fireball, or right-click to cancel.", "", 0)>>
    IN  IF IsNone(tile)
        THEN [objects |-> objs, result |-> "Cancelled", log |-> asked, events |-> <<>>]
        ELSE LET burnt == Burn(0, Unwrap(tile)[1], Unwrap(tile)[2],
                            [objects |-> objs, xp_to_gain |-> 0,
                             log |-> asked \o <<Msg("The fireball explodes!", "", FIREBALL_RADIUS)>>,
                             events |-> <<>>])
             IN  [objects |-> [burnt.objects EXCEPT ![PLAYER] = AddXp(@, burnt.xp_to_gain)],
                  result |-> "UsedUp", log |-> burnt.log, events |-> burnt.events]

\* What the item's on_use function returns and does.
OnUse(inventory_id, click, objs, inv, visible) ==
    LET item == Unwrap(inv[inventory_id].item)
    IN  CASE item = "Heal" ->
                LET r == cast_heal(objs, inv)
                IN  [objects |-> r.objects, inventory |-> inv, result |-> r.result,
                     log |-> r.log, events |-> <<>>]
          [] item = "Lightning" ->
                LET r == cast_lightning(objs, visible)
                IN  [objects |-> r.objects, inventory |-> inv, result |-> r.result,
                     log |-> r.log, events |-> r.events]
          [] item = "Confuse" ->
                LET r == cast_confuse(click, objs, visible)
                IN  [objects |-> r.objects, inventory |-> inv, result |-> r.result,
                     log |-> r.log, events |-> r.events]
          [] item = "Fireball" ->
                LET r == cast_fireball(click, objs, visible)
                IN  [objects |-> r.objects, inventory |-> inv, result |-> r.result,
                     log |-> r.log, events |-> r.events]
          [] OTHER ->
                LET r == toggle_equipment(inventory_id, inv)
                IN  [objects |-> objs, inventory |-> r.inventory, result |-> r.result,
                     log |-> r.log, events |-> <<>>]

\* use_item removing the item on Cancelled as on UsedUp.
UseResultApplied_charges(inventory_id, used) ==
    CASE used.result = "UsedUp" ->
            [used EXCEPT !.inventory = VecRemove(used.inventory, inventory_id)]
      [] used.result = "Cancelled" ->
            [used EXCEPT !.inventory = VecRemove(used.inventory, inventory_id),
                         !.log = used.log \o <<Msg("Cancelled", "", 0)>>]
      [] OTHER -> used

\* What use_item does with the result of on_use.
UseResultApplied(inventory_id, used) ==
    CASE used.result = "UsedUp" ->
            [used EXCEPT !.inventory = VecRemove(used.inventory, inventory_id)]
      [] used.result = "Cancelled" ->
            [used EXCEPT !.log = used.log \o <<Msg("Cancelled", "", 0)>>]
      [] OTHER -> used

use_item(inventory_id, click, objs, inv, visible) ==
    IF IsSome(inv[inventory_id].item)
    THEN UseResultApplied(inventory_id, OnUse(inventory_id, click, objs, inv, visible))
    ELSE [objects |-> objs, inventory |-> inv, result |-> "Unusable",
          log |-> <<Msg("cannot be used.", inv[inventory_id].name, 0)>>, events |-> <<>>]

----------------------------------------------------------------------------
(* The player's move, the monsters' turns, levelling up, the next level *)

player_move_or_attack(dx, dy, objs, inv, m) ==
    LET x == objs[PLAYER].x + dx
        y == objs[PLAYER].y + dy
        T == {i \in DOMAIN objs : IsSome(objs[i].fighter) /\ pos(objs[i]) = <<x, y>>}
    IN  IF T /= {}
        THEN LET target_id == MinOf(T)
                 r == attack(objs[PLAYER], objs[target_id], inv)
             IN  [objects |-> [objs EXCEPT ![PLAYER] = r.attacker, ![target_id] = r.target],
                  log |-> r.log,
                  events |-> <<Ev("attack", PLAYER, target_id, r.damage)>>]
        ELSE [objects |-> move_by(PLAYER, dx, dy, m, objs), log |-> <<>>, events |-> <<>>]

\* ((d as f32) / sqrt(dist_sq)).round() as i32 for an integer d with
\* d * d <= dist_sq.  With dist_sq = 0 the quotient 0.0 / 0.0 is NaN, which
\* the cast turns into 0.
RoundUnit(d, dist_sq) ==
    IF dist_sq = 0 THEN 0
    ELSE IF 4 * d * d >= dist_sq THEN (IF d > 0 THEN 1 ELSE -1) ELSE 0

move_towards(id, target_x, target_y, m, objs) ==
    LET dx == target_x - objs[id].x
        dy == target_y - objs[id].y
        dist_sq == dx * dx + dy * dy
    IN  move_by(id, RoundUnit(dx, dist_sq), RoundUnit(dy, dist_sq), m, objs)

ai_basic(monster_id, objs, visible, inv, m) ==
    IF pos(objs[monster_id]) \in visible
    THEN IF DistSq(objs[monster_id], objs[PLAYER].x, objs[PLAYER].y) >= 4
         THEN [objects |-> move_towards(monster_id, objs[PLAYER].x, objs[PLAYER].y, m, objs),
               ai |-> AiBasic, log |-> <<>>, events |-> <<>>]
         ELSE IF IsSome(objs[PLAYER].fighter) /\ Unwrap(objs[PLAYER].fighter).hp > 0
              THEN LET r == attack(objs[monster_id], objs[PLAYER], inv)
                   IN  [objects |-> [objs EXCEPT ![monster_id] = r.attacker, ![PLAYER] = r.target],
                        ai |-> AiBasic, log |-> r.log,
                        events |-> <<Ev("attack", monster_id, PLAYER, r.damage)>>]
              ELSE [objects |-> objs, ai |-> AiBasic, log |-> <<>>, events |-> <<>>]
    ELSE [objects |-> objs, ai |-> AiBasic, log |-> <<>>, events |-> <<>>]

\* ai_confused with num_turns > 0 as its test.
ai_confused_early(monster_id, objs, m, previous_ai, num_turns, dx, dy) ==
    IF num_turns > 0
    THEN [objects |-> move_by(monster_id, dx, dy, m, objs),
          ai |-> AiConfused(previous_ai, num_turns - 1),
          log |-> <<>>, events |-> <<>>]
    ELSE [objects |-> objs, ai |-> previous_ai,
          log |-> <<Msg("is no longer confused!", objs[monster_id].name, 0)>>,
          events |-> <<>>]

\* dx and dy are the two gen_range(-1, 2) draws.
ai_confused(monster_id, objs, m, previous_ai, num_turns, dx, dy) ==
    IF num_turns >= 0
    THEN [objects |-> move_by(monster_id, dx, dy, m, objs),
          ai |-> AiConfused(previous_ai, num_turns - 1),
          log |-> <<>>, events |-> <<>>]
    ELSE [objects |-> objs, ai |-> previous_ai,
          log |-> <<Msg("is no longer confused!", objs[monster_id].name, 0)>>,
          events |-> <<>>]

\* The monster's ai is taken out, its turn computes the new ai, which is put back.
ai_take_turn(monster_id, objs, visible, inv, m, dx, dy) ==
    IF IsSome(objs[monster_id].ai)
    THEN LET ai == Unwrap(objs[monster_id].ai)
             taken == [objs EXCEPT ![monster_id].ai = None]
             r == IF ai.kind = "Basic"
                  THEN ai_basic(monster_id, taken, visible, inv, m)
                  ELSE ai_confused(monster_id, taken, m, ai.previous_ai, ai.num_turns, dx, dy)
         IN  [objects |-> [r.objects EXCEPT ![monster_id].ai = Some(r.ai)],
              log |-> r.log, events |-> r.events]
    ELSE [objects |-> objs, log |-> <<>>, events |-> <<>>]

level_up_xp(player) == LEVEL_UP_BASE + player.level * LEVEL_UP_FACTOR

NeedsLevelUp(objs) ==
    (IF IsSome(objs[PLAYER].fighter) THEN Unwrap(objs[PLAYER].fighter).xp ELSE 0)
        >= level_up_xp(objs[PLAYER])

\* choice is the stat the player picks in the menu: 0, 1 or 2.
level_up(objs, choice) ==
    IF NeedsLevelUp(objs)
    THEN LET player == objs[PLAYER]
             f == Unwrap(player.fighter)
             f1 == [f EXCEPT !.xp = @ - level_up_xp(player)]
             f2 == CASE choice = 0 -> [f1 EXCEPT !.base_max_hp = @ + 20, !.hp = @ + 20]
                     [] choice = 1 -> [f1 EXCEPT !.base_power = @ + 1]
                     [] OTHER -> [f1 EXCEPT !.base_defense = @ + 1]
         IN  [objects |-> [objs EXCEPT ![PLAYER] =
                            [player EXCEPT !.level = @ + 1, !.fighter = Some(f2)]],
              log |-> <<Msg("Your battle skills grow stronger!", "", player.level + 1)>>]
    ELSE [objects |-> objs, log |-> <<>>]

\* script holds the random draws of make_map.
next_level(objs, inv, level, script) ==
    LET heal_hp == max_hp(objs[PLAYER], inv) \div 2
        healed == [objs EXCEPT ![PLAYER] = heal(@, heal_hp, inv)]
        made == make_map(healed, level + 1, script)
    IN  [objects |-> made.objects, map |-> made.map, dungeon_level |-> level + 1,
         log |-> <<Msg("You take a moment to rest, and recover your strength.", "", 0),
                   Msg("After a rare moment of peace, you descend deeper.", "", 0)>>]

----------------------------------------------------------------------------
(* The state after new_game, at the top of play_game *)

NewPlayer ==
    [ObjectNew(0, 0, "@", "player", TRUE) EXCEPT
        !.alive = TRUE, !.fighter = Some(Fighter(100, 100, 1, 2, "Player", 0))]

Dagger ==
    [ObjectNew(0, 0, "-", "dagger", FALSE) EXCEPT
        !.item = Some("Sword"), !.equipment = Some(Equipment("LeftHand", TRUE, 2, 0, 0))]

NoFrame ==
    [key |-> "", player_alive |-> TRUE, player_action |-> "", choice |-> None,
     result |-> "", activated |-> <<>>, recompute |-> FALSE]

NoConf == [id |-> -1, acts |-> 0, msgs |-> 0, prev |-> None]

NoGen == [map |-> {}, rooms |-> <<>>, objects |-> VecEmpty, starting_position |-> <<0, 0>>,
          attempts |-> 0]

\* The file "savegame" when it does not exist, when it cannot be decoded,
\* and as save_game writes it: the objects and the game.
FileMissing == [state |-> "missing"]
FileCorrupt == [state |-> "corrupt"]
FileSaved(objs, inv, m, expl, level) ==
    [state |-> "saved", objects |-> objs, inventory |-> inv, map |-> m,
     explored |-> expl, dungeon_level |-> level]

\* main_menu in its "Play a new game" arm: `choice` is the arm that runs
\* (-1 between arms), `last` the choice menu returned last, `loads` the
\* load_game calls of the arm that returned Ok, `closed` whether a loop test
\* has found the window closed.
NewSession ==
    [choice |-> 0, last |-> 0, loads |-> 0, savegame |-> FileMissing, closed |-> FALSE]

new_game(script) ==
    LET made == make_map(VecOf(NewPlayer), 1, script)
    IN  /\ objects = made.objects
        /\ map = made.map
        /\ explored = {}
        /\ inventory = VecOf(Dagger)
        /\ dungeon_level = 1
        /\ log = <<Msg("Welcome stranger! Prepare to perish in the Tombs of the Ancient Kings.", "", 0)>>
        /\ fov = {}
        /\ previous_player_position = <<-1, -1>>
        /\ pc = "render"
        /\ ai_id = 0
        /\ frame = NoFrame
        /\ events = <<>>
        /\ conf = NoConf
        /\ gen = NoGen
        /\ session = NewSession

----------------------------------------------------------------------------
(* play_game: one frame is Render, then one key, then the monsters' turns *)

\* render_all's loop with `*explored = visible` for every tile.
MarkExplored_only_visible(expl, visible) == visible

\* render_all's loop over the tiles: a visible tile becomes explored.
MarkExplored(expl, visible) == expl \cup visible

\* The top of a frame with render_all told to recompute in every frame.
Render_always_recompute ==
    /\ pc = "render"
    /\ \E choice \in (IF NeedsLevelUp(objects) THEN 0..2 ELSE {0}) :
        LET player == objects[PLAYER]
            fov_recompute == TRUE
            lvl == level_up(objects, choice)
        IN  /\ fov' = IF fov_recompute THEN compute_fov(map, player.x, player.y) ELSE fov
            /\ explored' = IF fov_recompute THEN MarkExplored(explored, fov') ELSE explored
            /\ objects' = lvl.objects
            /\ log' = lvl.log
            /\ previous_player_position' = pos(player)
            /\ frame' = [NoFrame EXCEPT !.recompute = fov_recompute]
    /\ pc' = "keys"
    /\ events' = <<>>
    /\ UNCHANGED <<inventory, map, dungeon_level, ai_id, conf, gen, session>>

\* The top of the loop: render_all with the recompute flag, then level_up.
Render ==
    /\ pc = "render"
    /\ \E choice \in (IF NeedsLevelUp(objects) THEN 0..2 ELSE {0}) :
        LET player == objects[PLAYER]
            fov_recompute == previous_player_position /= pos(player)
            lvl == level_up(objects, choice)
        IN  /\ fov' = IF fov_recompute THEN compute_fov(map, player.x, player.y) ELSE fov
            /\ explored' = IF fov_recompute THEN MarkExplored(explored, fov') ELSE explored
            /\ objects' = lvl.objects
            /\ log' = lvl.log
            /\ previous_player_position' = pos(player)
            /\ frame' = [NoFrame EXCEPT !.recompute = fov_recompute]
    /\ pc' = "keys"
    /\ events' = <<>>
    /\ UNCHANGED <<inventory, map, dungeon_level, ai_id, conf, gen, session>>

\* The loop over the ids with the id after an activated entity left out.
NextAi_skips_next(objs, from) ==
    LET S == {i \in DOMAIN objs : i > from /\ IsSome(objs[i].ai)}
    IN  IF S = {} THEN -1 ELSE MinOf(S)

\* The first index from `from` on whose object has an ai, or -1.
NextAi(objs, from) ==
    LET S == {i \in DOMAIN objs : i >= from /\ IsSome(objs[i].ai)}
    IN  IF S = {} THEN -1 ELSE MinOf(S)

\* The test without the comparison of player_action.
RunsAi_any_action(player_alive, player_action) == player_alive

\* play_game's test before the monsters' loop.
RunsAi(player_alive, player_action) ==
    player_alive /\ player_action /= "DidntTakeTurn"

\* handle_keys with TookTurn at the end of the 'i' arm.
TurnCost_use_takes_turn(key) ==
    CASE key \in {"Up", "Down", "Left", "Right", "Home", "PageUp", "End", "PageDown"} -> "TookTurn"
      [] key \in {"NumPad5", "g", "d", "i"} -> "TookTurn"
      [] OTHER -> "DidntTakeTurn"

\* What handle_keys returns for a key when the player is alive.
TurnCost(key) ==
    CASE key \in {"Up", "Down", "Left", "Right", "Home", "PageUp", "End", "PageDown"} -> "TookTurn"
      [] key = "NumPad5" -> "TookTurn"
      [] key = "g" -> "TookTurn"
      [] key = "i" -> "DidntTakeTurn"
      [] key = "d" -> "TookTurn"
      [] key = ">" -> "DidntTakeTurn"
      [] key = "c" -> "DidntTakeTurn"
      [] OTHER -> "DidntTakeTurn"

\* What handle_keys returns.
KeyAction(key, player_alive) ==
    CASE key = "AltEnter" -> "DidntTakeTurn"
      [] key \in {"Escape", "q"} -> "Exit"
      [] player_alive -> TurnCost(key)
      [] OTHER -> "DidntTakeTurn"

\* The rest of the frame after handle_keys returned: the loop ends on Exit,
\* the monsters' loop starts or the next frame does.  save_ok is whether
\* save_game returned Ok; its Err is unwrapped, which panics.
AfterKeys(key, choice, result, save_ok) ==
    LET player_action == KeyAction(key, objects[PLAYER].alive)
    IN  /\ frame' = [frame EXCEPT !.key = key, !.player_alive = objects[PLAYER].alive,
                                  !.player_action = player_action,
                                  !.choice = choice, !.result = result]
        /\ IF player_action = "Exit"
           THEN pc' = (IF save_ok THEN "exit" ELSE "panic") /\ ai_id' = ai_id
           ELSE IF RunsAi(objects'[PLAYER].alive, player_action) /\ NextAi(objects', 0) >= 0
                THEN pc' = "ai" /\ ai_id' = NextAi(objects', 0)
                ELSE pc' = "render" /\ ai_id' = ai_id

DirKey(dx, dy) ==
    CASE dx = 0 /\ dy = -1 -> "Up"
      [] dx = 0 /\ dy = 1 -> "Down"
      [] dx = -1 /\ dy = 0 -> "Left"
      [] dx = 1 /\ dy = 0 -> "Right"
      [] dx = -1 /\ dy = -1 -> "Home"
      [] dx = 1 /\ dy = -1 -> "PageUp"
      [] dx = -1 /\ dy = 1 -> "End"
      [] OTHER -> "PageDown"

Directions == {<<dx, dy>> : dx \in -1..1, dy \in -1..1} \ {<<0, 0>>}

\* A movement key whose arm matches whether the player is alive or not.
KeyMove_dead_or_alive(dx, dy) ==
    /\ pc = "keys"
    /\ LET r == player_move_or_attack(dx, dy, objects, inventory, map)
       IN  /\ objects' = r.objects
           /\ log' = r.log
           /\ events' = r.events
    /\ AfterKeys(DirKey(dx, dy), None, "", TRUE)
    /\ UNCHANGED <<inventory, map, explored, dungeon_level, fov,
                   previous_player_position, conf, gen, session>>

\* A movement key.
KeyMove(dx, dy) ==
    /\ pc = "keys"
    /\ LET r == IF objects[PLAYER].alive
                THEN player_move_or_attack(dx, dy, objects, inventory, map)
                ELSE [objects |-> objects, log |-> <<>>, events |-> <<>>]
       IN  /\ objects' = r.objects
           /\ log' = r.log
           /\ events' = r.events
    /\ AfterKeys(DirKey(dx, dy), None, "", TRUE)
    /\ UNCHANGED <<inventory, map, explored, dungeon_level, fov,
                   previous_player_position, conf, gen, session>>

\* NumPad5 (wait), 'c' (character screen), Alt+Enter and any other key:
\* handle_keys changes nothing.
KeyIdle(key) ==
    /\ pc = "keys"
    /\ key \in {"NumPad5", "c", "AltEnter", "other"}
    /\ log' = <<>>
    /\ events' = <<>>
    /\ UNCHANGED <<objects, inventory, map, explored, dungeon_level, fov,
                   previous_player_position, conf, gen, session>>
    /\ AfterKeys(key, None, "", TRUE)

\* Escape or 'q': the game is saved and the loop ends.  save_ok is whether
\* save_game wrote the file.  When it did not, the file is as it was (the
\* encoding or File::create failed) or, File::create having truncated it
\* before write_all failed, it cannot be decoded.
KeyExit(key, save_ok) ==
    /\ pc = "keys"
    /\ key \in {"Escape", "q"}
    /\ log' = <<>>
    /\ events' = <<>>
    /\ UNCHANGED <<objects, inventory, map, explored, dungeon_level, fov,
                   previous_player_position, conf, gen>>
    /\ \E file \in IF save_ok
                   THEN {FileSaved(objects, inventory, map, explored, dungeon_level)}
                   ELSE {session.savegame, FileCorrupt} :
          session' = [session EXCEPT !.savegame = file]
    /\ AfterKeys(key, None, "", save_ok)

\* The window has been closed: the test of play_game's loop, or of
\* main_menu's, ends the loop.  Nothing is drawn, no key is handled and
\* nothing is saved.
WindowClosed ==
    /\ pc \in {"render", "menu"}
    /\ pc' = (IF pc = "render" THEN "exit" ELSE "quit")
    /\ session' = [session EXCEPT !.closed = TRUE]
    /\ UNCHANGED <<objects, inventory, map, explored, dungeon_level, log, fov,
                   previous_player_position, ai_id, frame, events, conf, gen>>

\* swap_remove moves the last object to the removed index.
ConfAfterPickUp(c, item_id, objs) ==
    IF c.id = VecLen(objs) - 1 /\ c.id /= item_id THEN [c EXCEPT !.id = item_id] ELSE c

\* The 'g' arm with position() looking for any object on the player's tile,
\* an item or not.
KeyPickUp_any_object ==
    /\ pc = "keys"
    /\ LET I == {i \in DOMAIN objects :
                    pos(objects[i]) = pos(objects[PLAYER])}
       IN  IF objects[PLAYER].alive /\ I /= {}
           THEN LET r == pick_item_up(MinOf(I), objects, inventory)
                IN  /\ objects' = r.objects
                    /\ inventory' = r.inventory
                    /\ log' = r.log
                    /\ conf' = IF r.objects /= objects
                               THEN ConfAfterPickUp(conf, MinOf(I), objects) ELSE conf
           ELSE /\ log' = <<>>
                /\ UNCHANGED <<objects, inventory, conf>>
    /\ events' = <<>>
    /\ AfterKeys("g", None, "", TRUE)
    /\ UNCHANGED <<map, explored, dungeon_level, fov, previous_player_position, gen, session>>

\* 'g'
KeyPickUp ==
    /\ pc = "keys"
    /\ LET I == {i \in DOMAIN objects :
                    pos(objects[i]) = pos(objects[PLAYER]) /\ IsSome(objects[i].item)}
       IN  IF objects[PLAYER].alive /\ I /= {}
           THEN LET r == pick_item_up(MinOf(I), objects, inventory)
                IN  /\ objects' = r.objects
                    /\ inventory' = r.inventory
                    /\ log' = r.log
                    /\ conf' = IF r.objects /= objects
                               THEN ConfAfterPickUp(conf, MinOf(I), objects) ELSE conf
           ELSE /\ log' = <<>>
                /\ UNCHANGED <<objects, inventory, conf>>
    /\ events' = <<>>
    /\ AfterKeys("g", None, "", TRUE)
    /\ UNCHANGED <<map, explored, dungeon_level, fov, previous_player_position, gen, session>>

\* What inventory_menu can return: an index of the inventory, or None.
MenuChoices(inv) == {None} \cup {Some(i) : i \in DOMAIN inv}

\* The clicks that end the targeting loop: on an object's tile, or the cancel.
Clicks(objs) == {None} \cup {Some(pos(objs[i])) : i \in DOMAIN objs}

\* 'i': the inventory menu, then use_item on the choice.
KeyInventory(choice, click) ==
    /\ pc = "keys"
    /\ IF objects[PLAYER].alive /\ IsSome(choice)
       THEN LET r == use_item(Unwrap(choice), click, objects, inventory, fov)
                hit == {i \in 1..Len(r.events) : r.events[i].ev = "confuse"}
            IN  /\ objects' = r.objects
                /\ inventory' = r.inventory
                /\ log' = r.log
                /\ events' = r.events
                /\ conf' = IF hit /= {}
                           THEN [id |-> r.events[1].b, acts |-> 0, msgs |-> 0,
                                 prev |-> objects[r.events[1].b].ai]
                           ELSE conf
                /\ AfterKeys("i", choice, r.result, TRUE)
       ELSE /\ log' = <<>>
            /\ events' = <<>>
            /\ UNCHANGED <<objects, inventory, conf>>
            /\ AfterKeys("i", IF objects[PLAYER].alive THEN choice ELSE None, "", TRUE)
    /\ UNCHANGED <<map, explored, dungeon_level, fov, previous_player_position, gen, session>>

\* 'd': the inventory menu, then drop_item on the choice.
KeyDrop(choice) ==
    /\ pc = "keys"
    /\ IF objects[PLAYER].alive /\ IsSome(choice)
       THEN LET r == drop_item(Unwrap(choice), objects, inventory)
            IN  /\ objects' = r.objects
                /\ inventory' = r.inventory
                /\ log' = r.log
       ELSE /\ log' = <<>>
            /\ UNCHANGED <<objects, inventory>>
    /\ events' = <<>>
    /\ AfterKeys("d", IF objects[PLAYER].alive THEN choice ELSE None, "", TRUE)
    /\ UNCHANGED <<map, explored, dungeon_level, fov, previous_player_position, conf, gen, session>>

player_on_stairs(objs) ==
    \E i \in DOMAIN objs : pos(objs[i]) = pos(objs[PLAYER]) /\ objs[i].name = "stairs"

\* '>': the next level when the player stands on the stairs.  script is the
\* random draws of its make_map.
KeyDescend(script) ==
    /\ pc = "keys"
    /\ IF objects[PLAYER].alive /\ player_on_stairs(objects)
       THEN LET r == next_level(objects, inventory, dungeon_level, script)
            IN  /\ objects' = r.objects
                /\ map' = r.map
                /\ explored' = {}
                /\ dungeon_level' = r.dungeon_level
                /\ log' = r.log
                /\ conf' = NoConf
       ELSE /\ log' = <<>>
            /\ UNCHANGED <<objects, map, explored, dungeon_level, conf>>
    /\ events' = <<>>
    /\ AfterKeys(">", None, "", TRUE)
    /\ UNCHANGED <<inventory, fov, previous_player_position, gen, session>>

\* One pass of the monsters' loop: ai_take_turn for the object at ai_id.
\* dx, dy are the random step of a confused monster.
AiStep(dx, dy) ==
    /\ pc = "ai"
    /\ LET ai == Unwrap(objects[ai_id].ai)
           r == ai_take_turn(ai_id, objects, fov, inventory, map, dx, dy)
           restored == \E i \in 1..Len(r.log) : r.log[i].text = "is no longer confused!"
       IN  /\ (ai.kind = "Basic" \/ ai.num_turns < 0) => (dx = 0 /\ dy = 0)
           /\ objects' = r.objects
           /\ log' = r.log
           /\ events' = r.events
           /\ conf' = IF conf.id = ai_id
                      THEN [conf EXCEPT !.acts = Min(@ + 1, CONFUSE_NUM_TURNS + 3),
                                        !.msgs = IF restored THEN Min(@ + 1, 2) ELSE @]
                      ELSE conf
           /\ frame' = [frame EXCEPT !.activated = Append(@, ai_id)]
           /\ IF NextAi(r.objects, ai_id + 1) >= 0
              THEN pc' = "ai" /\ ai_id' = NextAi(r.objects, ai_id + 1)
              ELSE pc' = "render" /\ ai_id' = ai_id
    /\ UNCHANGED <<inventory, map, explored, dungeon_level, fov,
                   previous_player_position, gen, session>>

----------------------------------------------------------------------------
(* Random draws of make_map used to generate levels *)

\* The first sample for which ind_sample returns the item at position k.
RollOf(choices, k) == WeightUpTo(choices, k - 1)

\* -1 when the weight of the kind is 0 at the level: no sample yields it.
ItemRoll(level, kind) ==
    LET k == CHOOSE i \in 1..Len(item_chances(level)) : item_chances(level)[i].item = kind
    IN  IF item_chances(level)[k].weight = 0 THEN -1 ELSE RollOf(item_chances(level), k)

\* -1 for a troll on the levels where troll_chance is 0.
MonsterRoll(level, kind) ==
    IF kind = "orc" THEN 0
    ELSE IF troll_chance(level) = 0 THEN -1 ELSE RollOf(monster_chances(level), 2)

\* MAX_ROOMS times the same draws: the first attempt is accepted and every
\* later one intersects it, so the map is that one room.
OneRoom(a) == [i \in 1..MAX_ROOMS |-> a]

\* The bound on the depth the model descends to when it checks the equipment.
MaxDepthEquip == 4

\* The centre of the one room of a level: at x = 33 on odd levels and at
\* x = 43 on even ones.  place_objects runs while the player still stands
\* where it stood on the level above, and puts nothing there.
StartCentre(level) == <<IF level % 2 = 1 THEN 33 ELSE 43, 18>>

\* A 6 x 6 room with the player's start and the stairs at its centre and,
\* there too, two swords at depth 4 and one sword below it.

EquipAttempt(level) ==
    LET c == StartCentre(level)
    IN  Attempt(c[1] - 3, c[2] - 3, 6, 6, FALSE, <<>>,
            IF level < 4 THEN <<>>
            ELSE IF level = 4
                 THEN <<Draw(c[1], c[2], ItemRoll(level, "Sword")),
                        Draw(c[1], c[2], ItemRoll(level, "Sword"))>>
                 ELSE <<Draw(c[1], c[2], ItemRoll(level, "Sword"))>>)

EquipScripts(level) == {OneRoom(a) : a \in {b \in {EquipAttempt(level)} : ValidAttempt(b, level)}}

InitEquip == \E script \in EquipScripts(1) : new_game(script)

NextEquip ==
    \/ Render
    \/ KeyPickUp
    \/ \E choice \in MenuChoices(inventory) : KeyInventory(choice, None)
    \/ \E choice \in MenuChoices(inventory) : KeyDrop(choice)
    \/ /\ dungeon_level < MaxDepthEquip
       /\ \E script \in EquipScripts(dungeon_level + 1) : KeyDescend(script)

\* new_game, then any sequence of pick-ups, item uses, drops and descents.
SpecEquip == InitEquip /\ [][NextEquip]_vars

EquippedIn(slot) ==
    {i \in DOMAIN inventory : IsSome(inventory[i].equipment)
                               /\ Unwrap(inventory[i].equipment).equipped
                               /\ Unwrap(inventory[i].equipment).slot = slot}

HeldFor(slot) ==
    {i \in DOMAIN inventory : IsSome(inventory[i].equipment)
                               /\ Unwrap(inventory[i].equipment).slot = slot}

\* C1: in every state reachable from new_game by pick-ups, drops, item uses
\* (equip toggles) and descents, each slot has at most one equipped item in
\* the inventory.
C1_OneEquippedPerSlot ==
    \A slot \in {"LeftHand", "RightHand", "Head"} : Cardinality(EquippedIn(slot)) <= 1

\* C1 witness: an equip toggle has just run while the inventory holds two
\* items for one slot, one of them equipped.
C1_Witness ==
    /\ frame.key = "i" /\ frame.result = "UsedAndKept"
    /\ \E slot \in {"LeftHand", "RightHand"} :
          Cardinality(HeldFor(slot)) >= 2 /\ Cardinality(EquippedIn(slot)) = 1

----------------------------------------------------------------------------
(* take_damage called directly, on living and on dead entities *)

\* The damage amounts take_damage is called with.
DamageAmounts == {-1, 0, 1, 7, 40}

\* The bound on how far below zero the calls drive a fighter's hp.
MaxOverkill == 40

\* One orc two cells east of the player's start.
DamageAttempt == Attempt(30, 15, 6, 6, FALSE, <<Draw(35, 18, MonsterRoll(1, "orc"))>>, <<>>)

InitDamage == new_game(OneRoom(DamageAttempt))

\* objects[id].take_damage(damage, game)
TakeDamage(id, damage) ==
    /\ id \in DOMAIN objects
    /\ IsSome(objects[id].fighter) => Unwrap(objects[id].fighter).hp > -MaxOverkill
    /\ LET r == take_damage(objects[id], damage)
       IN  /\ objects' = [objects EXCEPT ![id] = r.obj]
           /\ log' = r.log
           /\ events' = <<Ev("take_damage", id, id, damage)>>
    /\ UNCHANGED <<inventory, map, explored, dungeon_level, fov,
                   previous_player_position, pc, ai_id, frame, conf, gen, session>>

NextDamage == \E id \in DOMAIN objects, damage \in DamageAmounts : TakeDamage(id, damage)

\* Any sequence of take_damage calls on the player, an orc and the stairs.
SpecDamage == InitDamage /\ [][NextDamage]_vars

DeathLogged(msgs) ==
    \E k \in 1..Len(msgs) : msgs[k].text \in {"You died!", "is dead! You gain experience points."}

\* C2: a take_damage call on an entity whose alive flag an earlier death
\* cleared logs no death (the death callback does not run again) and leaves
\* the entity's hp as it was; for the player as for monsters.
C2_DeadIgnoresDamage ==
    [][\A id \in DOMAIN objects :
          (events' /= <<>> /\ events'[1].ev = "take_damage" /\ events'[1].a = id
              /\ ~objects[id].alive /\ (id = PLAYER \/ objects[id].char = "%"))
          => (~DeathLogged(log') /\ objects'[id].fighter = objects[id].fighter)]_vars

----------------------------------------------------------------------------
(* Frames of play_game with every kind of key, an orc in the room *)

\* The bound on the depth the model descends to when it checks the turns.
MaxDepthTurn == 2

\* The bound on the hit points the player has lost when a frame starts.
MaxWoundsTurn == 9

\* The movement keys with one that calls player_move_or_attack(0, 0).
TurnDirections_and_stay == {<<1, 0>>, <<-1, 0>>, <<0, 0>>}

\* The movement keys the model presses here: Right and Left.
TurnDirections == {<<1, 0>>, <<-1, 0>>}

\* A 6 x 6 room with an orc two cells east of the player's start.
TurnAttempt(level) ==
    LET c == StartCentre(level)
    IN  Attempt(c[1] - 3, c[2] - 3, 6, 6, FALSE,
                <<Draw(c[1] + 2, c[2], MonsterRoll(level, "orc"))>>, <<>>)

TurnScripts(level) == {OneRoom(a) : a \in {b \in {TurnAttempt(level)} : ValidAttempt(b, level)}}

InitTurn == \E script \in TurnScripts(1) : new_game(script)

\* The hit points the player has lost.
Wounds(objs) == max_hp(objs[PLAYER], VecEmpty) - Unwrap(objs[PLAYER].fighter).hp

NextTurn ==
    \/ Wounds(objects) <= MaxWoundsTurn /\ Render
    \/ \E d \in TurnDirections : KeyMove(d[1], d[2])
    \/ \E key \in {"NumPad5", "c", "AltEnter", "other"} : KeyIdle(key)
    \/ \E key \in {"Escape", "q"}, save_ok \in BOOLEAN : KeyExit(key, save_ok)
    \/ WindowClosed
    \/ KeyPickUp
    \/ \E choice \in MenuChoices(inventory) : KeyInventory(choice, None)
    \/ \E choice \in MenuChoices(inventory) : KeyDrop(choice)
    \/ /\ dungeon_level < MaxDepthTurn
       /\ \E script \in TurnScripts(dungeon_level + 1) : KeyDescend(script)
    \/ AiStep(0, 0)

\* new_game, then frames with any of these keys.
SpecTurn == InitTurn /\ [][NextTurn]_vars

MoveKeys == {"Up", "Down", "Left", "Right", "Home", "PageUp", "End", "PageDown"}

\* The monsters next to the player: the ones that attack when they act.
AdjacentMonsters ==
    {i \in DOMAIN objects : i /= PLAYER /\ IsSome(objects[i].ai)
                             /\ DistSq(objects[i], objects[PLAYER].x, objects[PLAYER].y) < 4}

\* C4: in a frame the monsters act only if handle_keys returned TookTurn:
\* after DidntTakeTurn the frame ends with no AI activation (the next frame
\* starts, or the loop ends on the closed window), and after Exit the loop
\* has ended, in that frame, with no AI activation.
C4_AiOnlyAfterTookTurn ==
    /\ (pc = "ai" \/ frame.activated /= <<>>) => frame.player_action = "TookTurn"
    /\ frame.player_action = "DidntTakeTurn"
          => /\ pc = "render" \/ (pc = "exit" /\ session.closed)
             /\ frame.activated = <<>>
    /\ frame.player_action = "Exit" => (pc \in {"exit", "panic"} /\ frame.activated = <<>>)

\* C4 witness: a frame whose key did not take a turn has ended while a
\* monster stood next to the living player, and no monster acted.
C4_Witness ==
    /\ frame.player_action = "DidntTakeTurn" /\ frame.key = "c"
    /\ pc = "render" /\ objects[PLAYER].alive /\ AdjacentMonsters /= {}

\* C5: for a living player a movement key (move or attack), 'g' and a drop
\* return TookTurn; the use of an inventory item (an equip toggle too), '>'
\* and the character screen return DidntTakeTurn, and no monster acts in
\* their frames.
C5_TurnCosts ==
    frame.player_alive =>
        /\ (frame.key \in MoveKeys \cup {"g"} \/ (frame.key = "d" /\ IsSome(frame.choice)))
              => frame.player_action = "TookTurn"
        /\ frame.key \in {"i", ">", "c"}
              => (frame.player_action = "DidntTakeTurn" /\ frame.activated = <<>> /\ pc /= "ai")

\* C5 witness: an equip toggle has just run with a monster next to the
\* player, and the next frame starts without the monster having acted.
C5_Witness ==
    /\ frame.key = "i" /\ frame.result = "UsedAndKept"
    /\ pc = "render" /\ AdjacentMonsters /= {}

\* C6: the inventory menu ('i') or the drop menu ('d') left without a
\* choice does not take a turn: handle_keys returns DidntTakeTurn and no
\* monster acts; 'd' takes a turn only when an item was dropped.
C6_MenuCancelIsFree ==
    (frame.player_alive /\ frame.key \in {"i", "d"} /\ IsNone(frame.choice))
        => (frame.player_action = "DidntTakeTurn" /\ frame.activated = <<>> /\ pc /= "ai")

----------------------------------------------------------------------------
(* A scroll of confusion cast on an orc, and the orc's turns after it *)

\* The bound on the depth the model descends to when it checks the confusion.
MaxDepthConfuse == 2

\* The bound on the hit points the player has lost when a frame starts.
MaxWoundsConfuse == 9

\* A 6 x 6 room, empty on level 1; below it an orc two cells east of the
\* player's start and a scroll of confusion at the start.
ConfuseAttempt(level) ==
    LET c == StartCentre(level)
    IN  IF level = 1
        THEN Attempt(c[1] - 3, c[2] - 3, 6, 6, FALSE, <<>>, <<>>)
        ELSE Attempt(c[1] - 3, c[2] - 3, 6, 6, FALSE,
                     <<Draw(c[1] + 2, c[2], MonsterRoll(level, "orc"))>>,
                     <<Draw(c[1], c[2], ItemRoll(level, "Confuse"))>>)

ConfuseScripts(level) ==
    {OneRoom(a) : a \in {b \in {ConfuseAttempt(level)} : ValidAttempt(b, level)}}

InitConfuse == \E script \in ConfuseScripts(1) : new_game(script)

\* The inventory's scrolls of confusion, or no choice.
ScrollChoices(inv) ==
    {None} \cup {Some(i) : i \in {j \in DOMAIN inv : inv[j].item = Some("Confuse")}}

NextConfuse ==
    \/ Wounds(objects) <= MaxWoundsConfuse /\ Render
    \/ KeyIdle("NumPad5")
    \/ KeyPickUp
    \/ \E choice \in ScrollChoices(inventory), click \in Clicks(objects) :
          KeyInventory(choice, click)
    \/ /\ dungeon_level < MaxDepthConfuse
       /\ \E script \in ConfuseScripts(dungeon_level + 1) : KeyDescend(script)
    \/ \E dx \in -1..1, dy \in -1..1 : AiStep(dx, dy)

\* new_game, the descent to the orc and the scroll, then any sequence of
\* pick-ups, casts and waits.
SpecConfuse == InitConfuse /\ [][NextConfuse]_vars

\* The step is the k-th AI activation of the monster cast_confuse hit last.
IsActivation(k) ==
    /\ conf.id >= 0 /\ conf'.id = conf.id
    /\ conf.acts = k - 1 /\ conf'.acts = k

\* C3 as claimed: when the (N+1)-th AI activation of the confused monster
\* (N = CONFUSE_NUM_TURNS) has elapsed, its ai is the ai it had before
\* cast_confuse and "no longer confused" has been logged exactly once.
C3_RestoredAfterNPlus1 ==
    [][IsActivation(CONFUSE_NUM_TURNS + 1)
          => (objects'[conf.id].ai = conf.prev /\ conf'.msgs = 1)]_vars

\* C3 amended: the first N+1 activations are confused steps, after which the
\* monster is still confused with no message logged; the (N+2)-th activation
\* restores the ai it had before cast_confuse and logs "no longer confused",
\* once.
C3_RestoredAfterNPlus2 ==
    [][/\ \A k \in 1..(CONFUSE_NUM_TURNS + 1) :
             IsActivation(k)
                => /\ objects'[conf.id].ai
                         = Some(AiConfused(Unwrap(conf.prev), CONFUSE_NUM_TURNS - k))
                   /\ conf'.msgs = 0
       /\ IsActivation(CONFUSE_NUM_TURNS + 2)
             => (objects'[conf.id].ai = conf.prev /\ conf'.msgs = 1)]_vars

\* C3 witness: the confused orc has had N+2 activations and has its ai back.
C3_Witness ==
    /\ conf.id >= 0 /\ conf.acts = CONFUSE_NUM_TURNS + 2 /\ conf.msgs = 1
    /\ objects[conf.id].ai = Some(AiBasic)
    /\ \E k \in 1..Len(log) : log[k].text = "is no longer confused!"

----------------------------------------------------------------------------
(* Melee: the player against an orc and a troll, the dagger on and off *)

\* The bound on the depth the model descends to when it checks the attacks.
MaxDepthAttack == 3

\* The bound on the hit points the player has lost when a frame starts.
MaxWoundsAttack == 15

\* A 6 x 6 room, empty on level 1; an orc on level 2 and a troll below it,
\* two cells east of the player's start.
AttackAttempt(level) ==
    LET c == StartCentre(level)
    IN  Attempt(c[1] - 3, c[2] - 3, 6, 6, FALSE,
                IF level = 1 THEN <<>>
                ELSE <<Draw(c[1] + 2, c[2],
                            MonsterRoll(level, IF level = 2 THEN "orc" ELSE "troll"))>>,
                <<>>)

AttackScripts(level) ==
    {OneRoom(a) : a \in {b \in {AttackAttempt(level)} : ValidAttempt(b, level)}}

InitAttack == \E script \in AttackScripts(1) : new_game(script)

NextAttack ==
    \/ Wounds(objects) <= MaxWoundsAttack /\ Render
    \/ \E d \in TurnDirections : KeyMove(d[1], d[2])
    \/ \E choice \in MenuChoices(inventory) : KeyInventory(choice, None)
    \/ /\ dungeon_level < MaxDepthAttack
       /\ \E script \in AttackScripts(dungeon_level + 1) : KeyDescend(script)
    \/ AiStep(0, 0)

\* new_game, then moves, attacks, toggles of the dagger and descents.
SpecAttack == InitAttack /\ [][NextAttack]_vars

\* The sum of one bonus over the inventory's equipped items.
RECURSIVE BonusFrom(_, _)
BonusFrom(k, bonus) ==
    IF k >= VecLen(inventory) THEN 0
    ELSE (IF IsSome(inventory[k].equipment) /\ Unwrap(inventory[k].equipment).equipped
          THEN Unwrap(inventory[k].equipment)[bonus] ELSE 0) + BonusFrom(k + 1, bonus)

EffectivePower(id) ==
    Unwrap(objects[id].fighter).base_power + (IF id = PLAYER THEN BonusFrom(0, "power_bonus") ELSE 0)

EffectiveDefense(id) ==
    Unwrap(objects[id].fighter).base_defense + (IF id = PLAYER THEN BonusFrom(0, "defense_bonus") ELSE 0)

\* C7: an attack's damage is the attacker's effective power minus the
\* defender's effective defense (base value plus the bonuses of the equipped
\* inventory items for the player, base value alone for anyone else); when
\* it is positive the defender's hp falls by exactly it (a monster it kills
\* loses its fighter), otherwise the defender's hp and alive flag stay.
C7_AttackDamage ==
    [][\A k \in 1..Len(events') :
          events'[k].ev = "attack" =>
             LET a == events'[k].a
                 b == events'[k].b
                 damage == EffectivePower(a) - EffectiveDefense(b)
                 hp == Unwrap(objects[b].fighter).hp
             IN  /\ events'[k].n = damage
                 /\ IF damage > 0
                    THEN IF IsSome(objects'[b].fighter)
                         THEN Unwrap(objects'[b].fighter).hp = hp - damage
                         ELSE hp - damage <= 0 /\ b /= PLAYER
                    ELSE /\ objects'[b].fighter = objects[b].fighter
                         /\ objects'[b].alive = objects[b].alive]_vars

\* C7 witness: the player, the dagger dequipped, has attacked a troll and
\* the attack had no effect.
C7_Witness ==
    /\ \E k \in 1..Len(events) :
          events[k].ev = "attack" /\ events[k].a = PLAYER /\ events[k].n <= 0
    /\ \E k \in 1..Len(log) : log[k].text = "attacks but it has no effect!"
    /\ BonusFrom(0, "power_bonus") = 0

----------------------------------------------------------------------------
(* Potions and scrolls: heal, confusion, lightning and fireball, with two  *)
(* orcs on the deepest level                                               *)

\* The bound on the depth the model descends to when it checks the items.
MaxDepthItems == 6

\* The bound on the hit points the player has lost when a frame starts.
MaxWoundsItems == 30

\* A 6 x 6 room with, at the player's start: a healing potion on level 1, a
\* scroll of confusion on level 2, two scrolls of lightning on level 4, a
\* scroll of fireball on level 6 and below, where also two orcs stand, two
\* cells east and two cells west of the start.
ItemsAttempt(level) ==
    LET c == StartCentre(level)
        at(kind) == Draw(c[1], c[2], ItemRoll(level, kind))
    IN  Attempt(c[1] - 3, c[2] - 3, 6, 6, FALSE,
                IF level < 6 THEN <<>>
                ELSE <<Draw(c[1] + 2, c[2], MonsterRoll(level, "orc")),
                       Draw(c[1] - 2, c[2], MonsterRoll(level, "orc"))>>,
                CASE level = 1 -> <<at("Heal")>>
                  [] level = 2 -> <<at("Confuse")>>
                  [] level = 4 -> <<at("Lightning"), at("Lightning")>>
                  [] level >= 6 -> <<at("Fireball")>>
                  [] OTHER -> <<>>)

ItemsScripts(level) ==
    {OneRoom(a) : a \in {b \in {ItemsAttempt(level)} : ValidAttempt(b, level)}}

InitItems == \E script \in ItemsScripts(1) : new_game(script)

\* The inventory's potions and scrolls, or no choice.
UsableChoices(inv) ==
    {None} \cup {Some(i) : i \in {j \in DOMAIN inv : IsNone(inv[j].equipment)}}

\* The clicks on a tile where no living monster stands, or the cancel.
IdleClicks(objs) ==
    {None} \cup {Some(pos(objs[i])) : i \in {j \in DOMAIN objs :
                    \A k \in DOMAIN objs : IsSome(objs[k].ai) => pos(objs[k]) /= pos(objs[j])}}

NextItems ==
    \/ Wounds(objects) <= MaxWoundsItems /\ Render
    \/ KeyMove(1, 0)
    \/ KeyPickUp
    \/ \E choice \in UsableChoices(inventory), click \in IdleClicks(objects) :
          KeyInventory(choice, click)
    \/ /\ dungeon_level < MaxDepthItems
       /\ \E script \in ItemsScripts(dungeon_level + 1) : KeyDescend(script)
    \/ AiStep(0, 0)

\* new_game, then pick-ups, uses of potions and scrolls, moves, attacks and
\* descents.
SpecItems == InitItems /\ [][NextItems]_vars

\* What monster_death leaves of a monster.
IsCorpse(o) == o.name \in {"remains of orc", "remains of troll"}

Logged(msgs, text) == \E k \in 1..Len(msgs) : msgs[k].text = text

\* C8: a monster whose hp dropped to 0 or below has become a corpse: it does
\* not block and has no fighter and no ai.  On the same level a corpse stays
\* what and where it is (it never moves, never regains a fighter or an ai),
\* no attack, lightning bolt, confusion or fireball has it as attacker or
\* target, and the monsters' loop never runs it.
C8_DeadMonstersStayDead ==
    [][/\ \A i \in DOMAIN objects' :
             /\ (i /= PLAYER /\ IsSome(objects'[i].fighter))
                    => Unwrap(objects'[i].fighter).hp > 0
             /\ IsCorpse(objects'[i])
                    => (~objects'[i].blocks /\ IsNone(objects'[i].fighter)
                            /\ IsNone(objects'[i].ai))
       /\ \A i \in DOMAIN objects :
             (i /= PLAYER /\ IsSome(objects[i].fighter) /\ i \in DOMAIN objects'
                  /\ IsNone(objects'[i].fighter) /\ dungeon_level' = dungeon_level)
                => (IsCorpse(objects'[i]) /\ pos(objects'[i]) = pos(objects[i]))
       /\ dungeon_level' = dungeon_level
             => \A i \in DOMAIN objects :
                   IsCorpse(objects[i]) => \E j \in DOMAIN objects' : objects'[j] = objects[i]
       /\ \A k \in 1..Len(events') :
             ~IsCorpse(objects[events'[k].a]) /\ ~IsCorpse(objects[events'[k].b])
       /\ pc' = "ai" => ~IsCorpse(objects'[ai_id'])]_vars

\* C8 witness: a lightning bolt has just struck a living orc although the
\* corpse of another lay at least as near to the player.
C8_Witness ==
    \E k \in 1..Len(events), i \in DOMAIN objects :
        /\ events[k].ev = "lightning" /\ events[k].b /= i
        /\ IsCorpse(objects[i])
        /\ pos(objects[i]) \in fov
        /\ DistSq(objects[PLAYER], objects[i].x, objects[i].y)
              <= DistSq(objects[PLAYER], objects[events[k].b].x, objects[events[k].b].y)

\* C9: a use_item that ends in Cancelled (the targeting aborted or without a
\* monster on the tile, no monster for the lightning, the potion at full
\* health) leaves the objects (hp, positions, ai), the inventory (items and
\* equipped flags), the map and the dungeon level as they were; it only logs.
C9_CancelChangesNothing ==
    [][(pc = "keys" /\ frame'.key = "i" /\ frame'.result = "Cancelled")
          => /\ objects' = objects
             /\ inventory' = inventory
             /\ map' = map /\ explored' = explored
             /\ dungeon_level' = dungeon_level
             /\ log' /= <<>> /\ log'[Len(log')].text = "Cancelled"]_vars

\* C9 witness: the targeting of a scroll of confusion has just been
\* cancelled while a monster stood in the player's field of view.
C9_Witness ==
    /\ frame.key = "i" /\ frame.result = "Cancelled"
    /\ Logged(log, "Left-click an enemy to confuse it, or right-click to cancel.")
    /\ \E i \in DOMAIN objects : IsSome(objects[i].ai) /\ pos(objects[i]) \in fov

----------------------------------------------------------------------------
(* make_map run one iteration of its loop at a time, inside new_game *)

\* make_map's locals after `attempts` iterations of its loop.
GenWith(g, attempts) ==
    [map |-> g.map, rooms |-> g.rooms, objects |-> g.objects,
     starting_position |-> g.starting_position, attempts |-> attempts]

\* The rooms the generator draws from: one that touches the first along an
\* edge, one a cell apart from it, one below, one across several of them,
\* one far away; the third and the fourth also with the other coin, the
\* last with an orc and a potion.
MapAttempts ==
    {Attempt(30, 15, 6, 6, FALSE, <<>>, <<>>),
     Attempt(36, 15, 6, 6, FALSE, <<>>, <<>>),
     Attempt(37, 15, 6, 6, FALSE, <<>>, <<>>),
     Attempt(37, 15, 6, 6, TRUE, <<>>, <<>>),
     Attempt(30, 22, 10, 10, FALSE, <<>>, <<>>),
     Attempt(30, 22, 10, 10, TRUE, <<>>, <<>>),
     Attempt(33, 18, 8, 8, FALSE, <<>>, <<>>),
     Attempt(50, 30, 7, 9, TRUE, <<Draw(52, 33, MonsterRoll(1, "orc"))>>,
             <<Draw(53, 34, ItemRoll(1, "Heal"))>>)}

\* new_game at the start of make_map's loop: the player is the only object.
InitMap ==
    /\ objects = VecOf(NewPlayer)
    /\ inventory = VecEmpty
    /\ map = {}
    /\ explored = {}
    /\ dungeon_level = 1
    /\ log = <<>>
    /\ fov = {}
    /\ previous_player_position = <<-1, -1>>
    /\ pc = "make_map"
    /\ ai_id = 0
    /\ frame = NoFrame
    /\ events = <<>>
    /\ conf = NoConf
    /\ gen = GenWith(GenStart(objects), 0)
    /\ session = NewSession

\* One iteration of make_map's loop, with the draws a.
MapAttempt(a) ==
    /\ pc = "make_map"
    /\ gen.attempts < MAX_ROOMS
    /\ ValidAttempt(a, 1)
    /\ gen' = GenWith(MakeRoom(gen, a, 1), gen.attempts + 1)
    /\ UNCHANGED <<objects, inventory, map, explored, dungeon_level, log, fov,
                   previous_player_position, pc, ai_id, frame, events, conf, session>>

\* The end of make_map and the rest of new_game.
MapDone ==
    /\ pc = "make_map"
    /\ gen.attempts = MAX_ROOMS
    /\ LET made == PlaceStairs(gen)
       IN  /\ objects' = made.objects
           /\ map' = made.map
    /\ inventory' = VecOf(Dagger)
    /\ log' = <<Msg("Welcome stranger! Prepare to perish in the Tombs of the Ancient Kings.", "", 0)>>
    /\ pc' = "render"
    /\ UNCHANGED <<explored, dungeon_level, fov, previous_player_position,
                   ai_id, frame, events, conf, gen, session>>

NextMap ==
    \/ \E a \in MapAttempts : MapAttempt(a)
    \/ MapDone

\* new_game's make_map over every sequence of MAX_ROOMS of these draws.
SpecMap == InitMap /\ [][NextMap]_vars

\* The two rectangles share a point, their bounds included.
SharePoint(r, s) ==
    \E x \in r.x1..r.x2, y \in r.y1..r.y2 : x \in s.x1..s.x2 /\ y \in s.y1..s.y2

\* C10: no two rooms make_map accepted share a point, bounds included, and
\* when the map is made every cell strictly inside an accepted room is
\* unblocked.
C10_RoomsDisjointAndOpen ==
    /\ \A i, j \in 1..Len(gen.rooms) : i < j => ~SharePoint(gen.rooms[i], gen.rooms[j])
    /\ pc = "render" =>
          \A i \in 1..Len(gen.rooms) :
             \A x \in 0..(MAP_WIDTH - 1), y \in 0..(MAP_HEIGHT - 1) :
                (gen.rooms[i].x1 < x /\ x < gen.rooms[i].x2
                    /\ gen.rooms[i].y1 < y /\ y < gen.rooms[i].y2) => <<x, y>> \in map

\* C10 witness: a map is made with four rooms accepted, the others rejected,
\* among them one that touches an accepted room along an edge.
C10_Witness ==
    /\ pc = "render" /\ gen.attempts = MAX_ROOMS /\ Len(gen.rooms) = 4
    /\ \E i \in 1..Len(gen.rooms) : gen.rooms[i] = RectNew(30, 15, 6, 6)
    /\ \A i \in 1..Len(gen.rooms) : gen.rooms[i] /= RectNew(36, 15, 6, 6)

----------------------------------------------------------------------------
(* Connectivity of the generated map *)

\* The cells one 4-directional step away from p.
Steps4(p) ==
    {<<p[1] + 1, p[2]>>, <<p[1] - 1, p[2]>>, <<p[1], p[2] + 1>>, <<p[1], p[2] - 1>>}

\* The unblocked cells of m reachable from the cells of frontier by
\* 4-directional steps through unblocked cells; seen includes frontier.
RECURSIVE Flood(_, _, _)
Flood(m, seen, frontier) ==
    LET new == (UNION {Steps4(p) : p \in frontier} \cap m) \ seen
    IN  IF new = {} THEN seen ELSE Flood(m, seen \cup new, new)

\* The cells of m reachable from p, p itself included when it is unblocked.
ReachableFrom(m, p) == Flood(m, {p} \cap m, {p} \cap m)

\* C11: while make_map runs, the centre of each accepted room is reachable
\* from the centre of the room accepted before it through unblocked cells;
\* in the finished map every accepted room's centre and the stairs are
\* reachable from the player's start by 4-directional steps.
C11_RoomsConnected ==
    /\ pc = "make_map" =>
          \A i \in 2..Len(gen.rooms) :
             center(gen.rooms[i]) \in ReachableFrom(gen.map, center(gen.rooms[i - 1]))
    /\ pc = "render" =>
          LET reach == ReachableFrom(map, pos(objects[PLAYER]))
          IN  /\ \A i \in 1..Len(gen.rooms) : center(gen.rooms[i]) \in reach
              /\ \A i \in DOMAIN objects :
                    objects[i].name = "stairs" => pos(objects[i]) \in reach

\* C11 witness: a finished map of four rooms where one room was accepted
\* after a room to its right and above a room accepted before it, the
\* stairs in another room than the player.
C11_Witness ==
    /\ pc = "render" /\ Len(gen.rooms) = 4
    /\ \E i \in 2..Len(gen.rooms) :
          /\ center(gen.rooms[i])[1] < center(gen.rooms[i - 1])[1]
          /\ center(gen.rooms[i])[2] < center(gen.rooms[i - 1])[2]
    /\ \E i \in DOMAIN objects :
          objects[i].name = "stairs" /\ pos(objects[i]) /= pos(objects[PLAYER])

\* C12: make_map always accepts a room: after its first iteration the list
\* of accepted rooms is not empty and the start is the first room's centre;
\* in the finished map the player stands on the centre of the first
\* accepted room, the stairs are the last object and stand on the centre of
\* the last accepted room, and both cells are unblocked.
C12_StartAndStairsDefined ==
    /\ (pc = "make_map" /\ gen.attempts >= 1) =>
          /\ Len(gen.rooms) >= 1
          /\ gen.starting_position = center(gen.rooms[1])
          /\ gen.starting_position \in gen.map
    /\ pc = "render" =>
          LET stairs == objects[VecLen(objects) - 1]
          IN  /\ Len(gen.rooms) >= 1
              /\ pos(objects[PLAYER]) = center(gen.rooms[1])
              /\ pos(objects[PLAYER]) \in map
              /\ stairs.name = "stairs"
              /\ pos(stairs) = center(gen.rooms[Len(gen.rooms)])
              /\ pos(stairs) \in map
              /\ \A i \in DOMAIN objects : objects[i].name = "stairs" => i = VecLen(objects) - 1

\* C12 witness: a finished map where 27 of the 30 attempts were rejected,
\* the player in the first of the three accepted rooms and the stairs in
\* the last.
C12_Witness ==
    /\ pc = "render" /\ gen.attempts = MAX_ROOMS /\ Len(gen.rooms) = 3
    /\ pos(objects[VecLen(objects) - 1]) = center(gen.rooms[3])
    /\ pos(objects[PLAYER]) = center(gen.rooms[1])
    /\ center(gen.rooms[3]) /= center(gen.rooms[1])

----------------------------------------------------------------------------
(* Exploring: levels of two rooms a corridor apart, and levels of one room *)
(* whose centre is the stairs of the level above                           *)

\* The bound on the depth the model descends to when it checks exploring.
MaxDepthExplore == 2

\* MAX_ROOMS draws of which the first is a, the second is b and every later
\* one is a again, rejected: the map is the two rooms and their corridor.
TwoRooms(a, b) == [i \in 1..MAX_ROOMS |-> IF i = 2 THEN b ELSE a]

\* Two 6 x 6 rooms whose walls are side by side, the start at <<33, 18>>,
\* the stairs at <<40, 18>>; and a 10 x 10 room centred on <<40, 18>>, where
\* the stairs of such a level are.
ExploreScripts(level) ==
    {s \in {TwoRooms(Attempt(30, 15, 6, 6, TRUE, <<>>, <<>>),
                     Attempt(37, 15, 6, 6, TRUE, <<>>, <<>>)),
            OneRoom(Attempt(35, 13, 10, 10, FALSE, <<>>, <<>>))} :
        \A i \in 1..Len(s) : ValidAttempt(s[i], level)}

InitExplore ==
    new_game(TwoRooms(Attempt(30, 15, 6, 6, TRUE, <<>>, <<>>),
                      Attempt(37, 15, 6, 6, TRUE, <<>>, <<>>)))

ExploreDirections == {<<1, 0>>, <<-1, 0>>, <<0, 1>>}

NextExplore ==
    \/ Render
    \/ \E d \in ExploreDirections : KeyMove(d[1], d[2])
    \/ /\ dungeon_level < MaxDepthExplore
       /\ \E script \in ExploreScripts(dungeon_level + 1) : KeyDescend(script)

\* new_game on a level of two rooms, then any sequence of steps and descents.
SpecExplore == InitExplore /\ [][NextExplore]_vars


\* C13: while the game stays on one level no explored tile becomes
\* unexplored, and after a frame that recomputed the field of view every
\* visible tile is explored; so on that level it stays explored.
C13_ExploredNeverReverts ==
    [][/\ dungeon_level' = dungeon_level => explored \subseteq explored'
       /\ (pc = "render" /\ frame'.recompute) => fov' \subseteq explored']_vars

\* C13 witness: on the first level, after a step that recomputed the field
\* of view in the second room, a tile seen earlier is out of sight and
\* still explored, a wall among the visible tiles.
C13_Witness ==
    /\ dungeon_level = 1 /\ pc = "keys" /\ frame.recompute
    /\ objects[PLAYER].x > 37
    /\ \E c \in explored : c \notin fov
    /\ \E c \in fov : c \notin map
    /\ fov \subseteq explored

----------------------------------------------------------------------------
(* Descending: a troll on the third level wounds the player before the     *)
(* stairs are taken                                                        *)

\* The bound on the depth the model descends to when it checks descents.
MaxDepthDescend == 4

\* The bound on the player's wounds at the top of a frame of these runs.
MaxWoundsDescend == 105

\* A 6 x 6 room with the start and the stairs at its centre; on the third
\* level a troll two cells to the right of the start.
DescendAttempt(level) ==
    LET c == StartCentre(level)
    IN  Attempt(c[1] - 3, c[2] - 3, 6, 6, FALSE,
                IF level = 3 THEN <<Draw(c[1] + 2, c[2], MonsterRoll(level, "troll"))>> ELSE <<>>,
                <<>>)

DescendScripts(level) ==
    {OneRoom(a) : a \in {b \in {DescendAttempt(level)} : ValidAttempt(b, level)}}

InitDescend == \E script \in DescendScripts(1) : new_game(script)

NextDescend ==
    \/ Wounds(objects) <= MaxWoundsDescend /\ Render
    \/ \E d \in TurnDirections : KeyMove(d[1], d[2])
    \/ KeyIdle("NumPad5")
    \/ /\ dungeon_level < MaxDepthDescend
       /\ \E script \in DescendScripts(dungeon_level + 1) : KeyDescend(script)
    \/ AiStep(0, 0)

\* new_game, then steps, attacks, waits and descents.
SpecDescend == InitDescend /\ [][NextDescend]_vars


\* The index of the last object.
LastIndex(objs) == VecLen(objs) - 1

\* C14: a '>' key press with a living player on a stairs entity raises
\* dungeon_level by one, leaves the inventory alone, makes the objects the
\* player, then fresh monsters and items, then one stairs entity, and the
\* player's hp min(max_hp, hp + max_hp / 2) with nothing else of its fighter
\* changed; any other '>' key press changes nothing and logs nothing.
C14_DescendOnlyOnStairs ==
    [][(pc = "keys" /\ frame'.key = ">") =>
         IF objects[PLAYER].alive /\ player_on_stairs(objects)
         THEN LET f == Unwrap(objects[PLAYER].fighter)
                  full == max_hp(objects[PLAYER], inventory)
              IN  /\ dungeon_level' = dungeon_level + 1
                  /\ inventory' = inventory
                  /\ objects'[PLAYER].fighter =
                        Some([f EXCEPT !.hp = Min(full, f.hp + full \div 2)])
                  /\ objects'[PLAYER].name = "player" /\ objects'[PLAYER].alive
                  /\ objects'[LastIndex(objects')].name = "stairs"
                  /\ \A i \in 1..(LastIndex(objects') - 1) :
                        /\ objects'[i].name \notin {"stairs", "player"}
                        /\ IsSome(objects'[i].ai) \/ IsSome(objects'[i].item)
                        /\ IsSome(objects'[i].fighter) =>
                              /\ objects'[i].alive
                              /\ Unwrap(objects'[i].fighter).hp
                                    = Unwrap(objects'[i].fighter).base_max_hp
         ELSE /\ UNCHANGED <<objects, inventory, map, explored, dungeon_level, fov,
                             previous_player_position>>
              /\ log' = <<>>]_vars

\* C14 witness: the player came down to the fourth level with more than
\* half of its hit points missing, so the heal was not capped; a descent
\* with few wounds, capped, led to the third level.
C14_Witness ==
    /\ dungeon_level = 4 /\ frame.key = ">" /\ pc = "render"
    /\ Logged(log, "You take a moment to rest, and recover your strength.")
    /\ Wounds(objects) > 0
    /\ Unwrap(objects[PLAYER].fighter).hp >= max_hp(objects[PLAYER], inventory) \div 2


\* C15: in the frame after a descent render_all recomputes the field of view
\* on the new map from the player's new position and marks the visible
\* tiles explored, wherever the new level's start is.
C15_FovRecomputedAfterDescent ==
    [][(pc = "render" /\ frame.key = ">"
           /\ Logged(log, "After a rare moment of peace, you descend deeper."))
          => /\ frame'.recompute
             /\ fov' = compute_fov(map, objects[PLAYER].x, objects[PLAYER].y)
             /\ fov' \subseteq explored']_vars

----------------------------------------------------------------------------
(* Experience: two fireballs on ten trolls award 1000 points at once       *)

\* The bound on the depth the model descends to when it checks level-ups.
MaxDepthLevelUp == 8

\* The bound on the player's wounds at the top of a frame of these runs.
MaxWoundsLevelUp == 60

\* Levels of one 6 x 6 room, empty down to the fifth level, with two
\* fireball scrolls at the start on the sixth and the seventh; the eighth
\* level is two such rooms side by side, five trolls in a column in each,
\* all within FIREBALL_RADIUS of the corridor tile between the rooms.
LevelUpScript(level) ==
    LET c == StartCentre(level)
        scroll == Draw(c[1], c[2], ItemRoll(level, "Fireball"))
        trolls(x) == [k \in 1..5 |-> Draw(x, c[2] - 3 + k, MonsterRoll(level, "troll"))]
    IN  IF level < MaxDepthLevelUp
        THEN OneRoom(Attempt(c[1] - 3, c[2] - 3, 6, 6, FALSE, <<>>,
                             IF level < 6 THEN <<>> ELSE <<scroll, scroll>>))
        ELSE TwoRooms(Attempt(c[1] - 3, c[2] - 3, 6, 6, TRUE, trolls(c[1] + 2), <<>>),
                      Attempt(c[1] + 4, c[2] - 3, 6, 6, TRUE, trolls(c[1] + 5), <<>>))

LevelUpScripts(level) ==
    {s \in {LevelUpScript(level)} : \A i \in 1..Len(s) : ValidAttempt(s[i], level)}

InitLevelUp == \E script \in LevelUpScripts(1) : new_game(script)

\* The corridor tile between the two rooms of the deepest level.
FireballTarget == <<StartCentre(MaxDepthLevelUp)[1] + 3, StartCentre(MaxDepthLevelUp)[2]>>

NextLevelUp ==
    \/ Wounds(objects) <= MaxWoundsLevelUp /\ Render
    \/ KeyPickUp
    \/ \E choice \in UsableChoices(inventory), click \in {None, Some(FireballTarget)} :
          KeyInventory(choice, click)
    \/ /\ dungeon_level < MaxDepthLevelUp
       /\ \E script \in LevelUpScripts(dungeon_level + 1) : KeyDescend(script)
    \/ AiStep(0, 0)

\* new_game, then pick-ups, fireballs and descents.
SpecLevelUp == InitLevelUp /\ [][NextLevelUp]_vars

\* C16: when play_game has run level_up and waits for the frame's key, the
\* player's experience is below the threshold of the player's level.
C16_LevelUpCompletes == pc = "keys" => ~NeedsLevelUp(objects)


----------------------------------------------------------------------------
(* Saving on exit *)

\* C17: play_game never panics: when save_game fails on exit the loop ends
\* or goes on, it does not crash.
C17_FailedSaveDoesNotPanic == pc /= "panic"


----------------------------------------------------------------------------
(* main_menu: new games, continued games and the save file *)

\* load_game: Ok with the saved objects and game, or Err.
load_game(file) == IF file.state = "saved" THEN Some(file) ELSE None

\* The first load_game of the "Continue last game" arm with its result
\* unwrapped.
AfterLoad_unwrap(loaded) == IF IsSome(loaded) THEN "render" ELSE "panic"

\* Where main_menu goes on after the first load_game of the "Continue last
\* game" arm: into play_game, or back to the menu.
AfterLoad(loaded) == IF IsSome(loaded) THEN "render" ELSE "menu"

\* initialize_fov and the start of play_game on a loaded game.
PlayLoaded(file) ==
    /\ objects' = file.objects
    /\ inventory' = file.inventory
    /\ map' = file.map
    /\ explored' = file.explored
    /\ dungeon_level' = file.dungeon_level
    /\ log' = <<>>
    /\ previous_player_position' = <<-1, -1>>
    /\ frame' = NoFrame
    /\ events' = <<>>
    /\ conf' = NoConf
    /\ UNCHANGED <<fov, ai_id, gen>>

\* "Play a new game": new_game, then play_game.
MenuNewGame(script) ==
    /\ pc = "menu"
    /\ LET made == make_map(VecOf(NewPlayer), 1, script)
       IN  /\ objects' = made.objects
           /\ map' = made.map
    /\ explored' = {}
    /\ inventory' = VecOf(Dagger)
    /\ dungeon_level' = 1
    /\ log' = <<Msg("Welcome stranger! Prepare to perish in the Tombs of the Ancient Kings.", "", 0)>>
    /\ previous_player_position' = <<-1, -1>>
    /\ pc' = "render"
    /\ frame' = NoFrame
    /\ events' = <<>>
    /\ conf' = NoConf
    /\ session' = [session EXCEPT !.choice = 0, !.last = 0, !.loads = 0]
    /\ UNCHANGED <<fov, ai_id, gen>>

\* "Continue last game": load_game, then play_game on what it read, or the
\* message box and the menu again.
MenuContinue ==
    /\ pc = "menu"
    /\ LET loaded == load_game(session.savegame)
       IN  /\ pc' = AfterLoad(loaded)
           /\ IF IsSome(loaded)
              THEN /\ PlayLoaded(Unwrap(loaded))
                   /\ session' = [session EXCEPT !.choice = 1, !.last = 1, !.loads = 1]
              ELSE /\ log' = <<Msg("No saved game to load.", "", 0)>>
                   /\ session' = [session EXCEPT !.last = 1]
                   /\ UNCHANGED <<objects, inventory, map, explored, dungeon_level, fov,
                                  previous_player_position, ai_id, frame, events, conf, gen>>

\* "Quit": main_menu's loop ends.
MenuQuit ==
    /\ pc = "menu"
    /\ pc' = "quit"
    /\ session' = [session EXCEPT !.last = 2]
    /\ UNCHANGED <<objects, inventory, map, explored, dungeon_level, log, fov,
                   previous_player_position, ai_id, frame, events, conf, gen>>

\* play_game returned.  After the first session of the "Continue last game"
\* arm main_menu loads the file again, unwraps the result and plays it;
\* otherwise the menu is shown again.  With the window closed the second
\* play_game returns at its first loop test, and so does main_menu.
PlayReturns ==
    /\ pc = "exit"
    /\ IF session.choice = 1 /\ session.loads = 1
       THEN LET loaded == load_game(session.savegame)
            IN  IF IsSome(loaded)
                THEN /\ PlayLoaded(Unwrap(loaded))
                     /\ pc' = (IF session.closed THEN "exit" ELSE "render")
                     /\ session' = [session EXCEPT !.loads = 2]
                ELSE /\ pc' = "panic"
                     /\ UNCHANGED <<objects, inventory, map, explored, dungeon_level, log,
                                    fov, previous_player_position, ai_id, frame, events,
                                    conf, gen, session>>
       ELSE /\ pc' = (IF session.closed THEN "quit" ELSE "menu")
            /\ session' = [session EXCEPT !.choice = -1]
            /\ UNCHANGED <<objects, inventory, map, explored, dungeon_level, log, fov,
                           previous_player_position, ai_id, frame, events, conf, gen>>

\* The program at its first menu: no game yet, the save file missing or
\* not decodable.
InitMenu ==
    /\ objects = VecEmpty
    /\ inventory = VecEmpty
    /\ map = {}
    /\ explored = {}
    /\ dungeon_level = 0
    /\ log = <<>>
    /\ fov = {}
    /\ previous_player_position = <<-1, -1>>
    /\ pc = "menu"
    /\ ai_id = 0
    /\ frame = NoFrame
    /\ events = <<>>
    /\ conf = NoConf
    /\ gen = NoGen
    /\ session \in {[choice |-> -1, last |-> -1, loads |-> 0, savegame |-> file,
                       closed |-> FALSE] :
                      file \in {FileMissing, FileCorrupt}}

NextMenu ==
    \/ \E script \in EquipScripts(1) : MenuNewGame(script)
    \/ MenuContinue
    \/ MenuQuit
    \/ PlayReturns
    \/ Render
    \/ \E d \in TurnDirections : KeyMove(d[1], d[2])
    \/ \E save_ok \in BOOLEAN : KeyExit("Escape", save_ok)
    \/ WindowClosed

\* main_menu, with games of steps left and right in one room.
SpecMenu == InitMenu /\ [][NextMenu]_vars

\* C18: when "Continue last game" is chosen and load_game fails, the message
\* box says there is no saved game and the menu is shown again: no game is
\* started, nothing of the game or the file changes, nothing panics.
C18_FailedLoadBackToMenu ==
    [][(pc = "menu" /\ session'.last = 1 /\ ~session'.closed
           /\ IsNone(load_game(session.savegame)))
          => /\ pc' = "menu"
             /\ log' = <<Msg("No saved game to load.", "", 0)>>
             /\ session'.choice = -1 /\ session'.loads = session.loads
             /\ session'.savegame = session.savegame
             /\ UNCHANGED <<objects, inventory, map, explored, dungeon_level, fov,
                            previous_player_position>>]_vars

\* C18 witness: back at the menu after "Continue last game" found a file it
\* could not decode.
C18_Witness ==
    /\ pc = "menu" /\ session.last = 1 /\ session.savegame = FileCorrupt
    /\ Logged(log, "No saved game to load.")


----------------------------------------------------------------------------
(* Filling the inventory: an item or two at the start of every level *)

\* The bound on the depth the model descends to when it checks the capacity.
MaxDepthCapacity == 15

\* The same 6 x 6 room on every level, the start and the stairs at its
\* centre <<33, 18>>; on the tile to the right of it one healing potion
\* down to the third level, two swords on the fourth and two healing
\* potions below it.
CapacityAttempt(level) ==
    LET at(kind) == Draw(34, 18, ItemRoll(level, kind))
    IN  Attempt(30, 15, 6, 6, FALSE, <<>>,
                IF level < 4 THEN <<at("Heal")>>
                ELSE IF level = 4 THEN <<at("Sword"), at("Sword")>>
                     ELSE <<at("Heal"), at("Heal")>>)

CapacityScripts(level) ==
    {OneRoom(a) : a \in {b \in {CapacityAttempt(level)} : ValidAttempt(b, level)}}

InitCapacity == \E script \in CapacityScripts(1) : new_game(script)

NextCapacity ==
    \/ Render
    \/ \E d \in TurnDirections : KeyMove(d[1], d[2])
    \/ KeyPickUp
    \/ /\ dungeon_level < MaxDepthCapacity
       /\ \E script \in CapacityScripts(dungeon_level + 1) : KeyDescend(script)

\* new_game, then any sequence of steps, pick-ups and descents.
SpecCapacity == InitCapacity /\ [][NextCapacity]_vars

\* How many elements of vec are o.
Count(vec, o) == Cardinality({i \in DOMAIN vec : vec[i] = o})

\* The items on the player's tile.
ItemsHere(objs) ==
    {i \in DOMAIN objs : pos(objs[i]) = pos(objs[PLAYER]) /\ IsSome(objs[i].item)}

\* C19: a 'g' key press by a living player on an item, with fewer than 26
\* items held, takes exactly that item out of the objects and appends it to
\* the inventory, equipped iff it is equipment and no equipped item of the
\* inventory held its slot; with 26 items held the objects and the inventory
\* stay as they are.  The inventory never holds more than 26 items, the most
\* the inventory menu accepts.
C19_PickUpWithinCapacity ==
    [][/\ VecLen(inventory) <= INVENTORY_CAPACITY
       /\ VecLen(inventory') <= INVENTORY_CAPACITY
       /\ (pc = "keys" /\ frame'.key = "g" /\ objects[PLAYER].alive
              /\ ItemsHere(objects) /= {}) =>
            LET item == objects[MinOf(ItemsHere(objects))]
                n == VecLen(inventory)
            IN  IF n < INVENTORY_CAPACITY
                THEN /\ VecLen(objects') = VecLen(objects) - 1
                     /\ \A i \in DOMAIN objects :
                           Count(objects', objects[i])
                              = Count(objects, objects[i]) - (IF objects[i] = item THEN 1 ELSE 0)
                     /\ VecLen(inventory') = n + 1
                     /\ \A i \in DOMAIN inventory : inventory'[i] = inventory[i]
                     /\ inventory'[n] =
                           IF IsSome(item.equipment)
                           THEN [item EXCEPT !.equipment = Some([Unwrap(item.equipment) EXCEPT
                                    !.equipped = (EquippedIn(Unwrap(item.equipment).slot) = {})])]
                           ELSE item
                ELSE objects' = objects /\ inventory' = inventory]_vars

\* C19 witness: 'g' was pressed on an item with 26 items held, among them a
\* sword that was equipped when it was picked up and one that was not.
C19_Witness ==
    /\ frame.key = "g" /\ VecLen(inventory) = INVENTORY_CAPACITY
    /\ ItemsHere(objects) /= {}
    /\ Logged(log, "Your inventory is full, cannot pick up.")
    /\ \E i, j \in DOMAIN inventory :
          /\ inventory[i].name = inventory[j].name
          /\ IsSome(inventory[i].equipment) /\ Unwrap(inventory[i].equipment).equipped
          /\ IsSome(inventory[j].equipment) /\ ~Unwrap(inventory[j].equipment).equipped


----------------------------------------------------------------------------
(* Dropping items *)

\* The object with its equipment, if it has any, not equipped.
Unequipped(o) ==
    IF IsSome(o.equipment)
    THEN [o EXCEPT !.equipment = Some([Unwrap(o.equipment) EXCEPT !.equipped = FALSE])]
    ELSE o

\* C20: no object on the map is ever equipped.  A 'd' key press by a living
\* player with an item chosen takes that item out of the inventory, the
\* others keeping their order, and appends it to the objects, unequipped, on
\* the player's tile.  Wherever the player stands on an item with room in
\* the inventory, pick_item_up followed by drop_item of the item just
\* picked up gives back the inventory and leaves the same objects, the item
\* as it was on its tile.
C20_DropPutsItemBack ==
    [][/\ \A i \in DOMAIN objects :
             IsSome(objects[i].equipment) => ~Unwrap(objects[i].equipment).equipped
       /\ \A i \in DOMAIN objects' :
             IsSome(objects'[i].equipment) => ~Unwrap(objects'[i].equipment).equipped
       /\ (pc = "keys" /\ frame'.key = "d" /\ objects[PLAYER].alive /\ IsSome(frame'.choice)) =>
            LET k == Unwrap(frame'.choice)
                n == VecLen(inventory)
                m == VecLen(objects)
            IN  /\ VecLen(inventory') = n - 1
                /\ \A i \in 0..(n - 2) :
                      inventory'[i] = IF i < k THEN inventory[i] ELSE inventory[i + 1]
                /\ VecLen(objects') = m + 1
                /\ \A i \in DOMAIN objects : objects'[i] = objects[i]
                /\ objects'[m] = [Unequipped(inventory[k]) EXCEPT
                                     !.x = objects[PLAYER].x, !.y = objects[PLAYER].y]
       /\ (pc = "keys" /\ ItemsHere(objects) /= {} /\ VecLen(inventory) < INVENTORY_CAPACITY) =>
            LET id == MinOf(ItemsHere(objects))
                picked == pick_item_up(id, objects, inventory)
                dropped == drop_item(VecLen(picked.inventory) - 1,
                                     picked.objects, picked.inventory)
            IN  /\ dropped.inventory = inventory
                /\ VecLen(dropped.objects) = VecLen(objects)
                /\ dropped.objects[VecLen(objects) - 1] = objects[id]
                /\ \A i \in DOMAIN objects :
                      Count(dropped.objects, objects[i]) = Count(objects, objects[i])]_vars

\* C20 witness: a sword that was equipped when it was picked up was dropped
\* and lies unequipped on the player's tile, where the dagger of new_game
\* was dropped before it.
C20_Witness ==
    /\ frame.key = "d" /\ IsSome(frame.choice)
    /\ Logged(log, "Dequipped")
    /\ \E i \in DOMAIN objects :
          objects[i].name = "dagger" /\ pos(objects[i]) = pos(objects[PLAYER])
    /\ LET o == objects[VecLen(objects) - 1]
       IN  /\ o.name = "sword" /\ pos(o) = pos(objects[PLAYER])
           /\ ~Unwrap(o.equipment).equipped


----------------------------------------------------------------------------
(* Lightning: orcs at the far corners of a 10 x 10 room *)

\* The bound on the depth the model descends to when it checks lightning.
MaxDepthLightning == 5

\* The bound on the player's wounds at the top of a frame of these runs.
MaxWoundsLightning == 8

\* Levels of one room with the start and the stairs at its centre: 6 x 6 and
\* empty down to the third level, with two lightning scrolls at the start on
\* the fourth; below it 10 x 10, with orcs at the given offsets from the
\* start.
LightningScript(level, offsets) ==
    LET c == StartCentre(level)
        scroll == Draw(c[1], c[2], ItemRoll(level, "Lightning"))
    IN  IF level < 5
        THEN OneRoom(Attempt(c[1] - 3, c[2] - 3, 6, 6, FALSE, <<>>,
                             IF level = 4 THEN <<scroll, scroll>> ELSE <<>>))
        ELSE OneRoom(Attempt(c[1] - 5, c[2] - 5, 10, 10, FALSE,
                        [k \in 1..Len(offsets) |->
                            Draw(c[1] + offsets[k][1], c[2] + offsets[k][2],
                                 MonsterRoll(level, "orc"))],
                        <<>>))

\* The orcs of the deepest levels: one at distance sqrt(32), one at distance
\* 5, one at each of these, and one at distance sqrt(32) with one at 4.
LightningOffsets ==
    {<<<<4, 4>>>>, <<<<3, 4>>>>, <<<<4, 4>>, <<-3, -4>>>>, <<<<4, 4>>, <<0, -4>>>>}

LightningScripts(level) ==
    {s \in {LightningScript(level, o) : o \in LightningOffsets} :
        \A i \in 1..Len(s) : ValidAttempt(s[i], level)}

InitLightning == \E script \in LightningScripts(1) : new_game(script)

NextLightning ==
    \/ Wounds(objects) <= MaxWoundsLightning /\ Render
    \/ KeyIdle("NumPad5")
    \/ KeyPickUp
    \/ \E choice \in UsableChoices(inventory) : KeyInventory(choice, None)
    \/ /\ dungeon_level < MaxDepthLightning
       /\ \E script \in LightningScripts(dungeon_level + 1) : KeyDescend(script)
    \/ AiStep(0, 0)

\* new_game, then pick-ups, lightning bolts, waits and descents.
SpecLightning == InitLightning /\ [][NextLightning]_vars

\* The monsters in the field of view within LIGHTNING_RANGE of the player.
InLightningRange(objs, visible) ==
    {i \in DOMAIN objs :
        /\ i /= PLAYER /\ IsSome(objs[i].fighter) /\ IsSome(objs[i].ai)
        /\ pos(objs[i]) \in visible
        /\ DistSq(objs[PLAYER], objs[i].x, objs[i].y) <= LIGHTNING_RANGE * LIGHTNING_RANGE}

\* C21: a lightning scroll used by a living player strikes one monster, in
\* the field of view, at distance at most LIGHTNING_RANGE from the player
\* and no farther than any other such monster; when there is no such
\* monster nothing is struck, the use is cancelled and the scroll stays.
C21_LightningWithinRange ==
    [][(pc = "keys" /\ frame'.key = "i" /\ objects[PLAYER].alive /\ IsSome(frame'.choice)
           /\ inventory[Unwrap(frame'.choice)].item = Some("Lightning")) =>
         LET C == InLightningRange(objects, fov)
         IN  IF C = {}
             THEN /\ events' = <<>>
                  /\ frame'.result = "Cancelled"
                  /\ objects' = objects /\ inventory' = inventory
             ELSE /\ Len(events') = 1
                  /\ events'[1].ev = "lightning"
                  /\ events'[1].b \in C
                  /\ \A j \in C :
                        DistSq(objects[PLAYER], objects[events'[1].b].x, objects[events'[1].b].y)
                           <= DistSq(objects[PLAYER], objects[j].x, objects[j].y)
                  /\ frame'.result = "UsedUp"
                  /\ VecLen(inventory') = VecLen(inventory) - 1]_vars

\* ---------------------------------------------------------------------------
\* Fireballs: the player picks up four fireball scrolls on the sixth and the
\* seventh level and casts them among three orcs on the eighth.
\* ---------------------------------------------------------------------------

\* The deepest level of these runs.
MaxDepthFireball == 8

\* The bound on the player's wounds at the top of a frame of these runs.
MaxWoundsFireball == 99

\* Levels of one room with the start and the stairs at its centre: 6 x 6 and
\* empty down to the fifth level, with two fireball scrolls at the start on
\* the sixth and the seventh; the eighth is 10 x 10 with three orcs, at
\* distances 4, sqrt(13) and sqrt(18) from the start.
FireballScript(level) ==
    LET c == StartCentre(level)
        scroll == Draw(c[1], c[2], ItemRoll(level, "Fireball"))
        orc(dx, dy) == Draw(c[1] + dx, c[2] + dy, MonsterRoll(level, "orc"))
    IN  IF level < MaxDepthFireball
        THEN OneRoom(Attempt(c[1] - 3, c[2] - 3, 6, 6, FALSE, <<>>,
                             IF level < 6 THEN <<>> ELSE <<scroll, scroll>>))
        ELSE OneRoom(Attempt(c[1] - 5, c[2] - 5, 10, 10, FALSE,
                             <<orc(4, 0), orc(2, 3), orc(-3, -3)>>, <<>>))

FireballScripts(level) ==
    {s \in {FireballScript(level)} : \A i \in 1..Len(s) : ValidAttempt(s[i], level)}

InitFireball == \E script \in FireballScripts(1) : new_game(script)

\* The tiles clicked: two and four tiles to the right of the start of the
\* deepest level, the first within FIREBALL_RADIUS of the start.
FireballTargets ==
    {<<StartCentre(MaxDepthFireball)[1] + 2, StartCentre(MaxDepthFireball)[2]>>,
     <<StartCentre(MaxDepthFireball)[1] + 4, StartCentre(MaxDepthFireball)[2]>>}

NextFireball ==
    \/ Wounds(objects) <= MaxWoundsFireball /\ Render
    \/ KeyIdle("NumPad5")
    \/ KeyPickUp
    \/ \E choice \in UsableChoices(inventory), t \in FireballTargets :
          KeyInventory(choice, Some(t))
    \/ /\ dungeon_level < MaxDepthFireball
       /\ \E script \in FireballScripts(dungeon_level + 1) : KeyDescend(script)
    \/ AiStep(0, 0)

\* new_game, then pick-ups, fireballs, waits and descents.
SpecFireball == InitFireball /\ [][NextFireball]_vars

\* The entities with a fighter within FIREBALL_RADIUS of the tile t.
InFireball(objs, t) ==
    {i \in DOMAIN objs :
        /\ IsSome(objs[i].fighter)
        /\ DistSq(objs[i], t[1], t[2]) <= FIREBALL_RADIUS * FIREBALL_RADIUS}

\* The entities of S that FIREBALL_DAMAGE kills.
KilledByFireball(objs, S) ==
    {i \in S : Unwrap(objs[i].fighter).hp <= FIREBALL_DAMAGE}

\* The sum of the experience values of the entities of S.
RECURSIVE SumXp(_, _)
SumXp(objs, S) ==
    IF S = {} THEN 0
    ELSE LET i == CHOOSE j \in S : TRUE
         IN  Unwrap(objs[i].fighter).xp + SumXp(objs, S \ {i})

\* What a fireball on the tile t does to objs: the events, one for each
\* entity burned, and the objects after it.
FireballEffect(objs, objs2, evs, t) ==
    LET B == InFireball(objs, t)
        K == KilledByFireball(objs, B)
    IN  /\ Len(evs) = Cardinality(B)
        /\ \A i \in B :
              Cardinality({k \in 1..Len(evs) :
                  evs[k] = Ev("fireball", PLAYER, i, FIREBALL_DAMAGE)}) = 1
        /\ \A i \in B \ K :
              /\ objs2[i].alive = objs[i].alive
              /\ Unwrap(objs2[i].fighter).hp = Unwrap(objs[i].fighter).hp - FIREBALL_DAMAGE
        /\ \A i \in K : ~objs2[i].alive
        /\ \A i \in DOMAIN objs :
              i \notin B /\ i /= PLAYER => objs2[i] = objs[i]
        /\ PLAYER \notin B =>
              Unwrap(objs2[PLAYER].fighter).hp = Unwrap(objs[PLAYER].fighter).hp
        /\ Unwrap(objs2[PLAYER].fighter).xp =
              Unwrap(objs[PLAYER].fighter).xp + SumXp(objs, K \ {PLAYER})

\* C22: a fireball cast on a tile burns each entity with a fighter within
\* FIREBALL_RADIUS of the tile exactly once, by FIREBALL_DAMAGE, the player
\* included, and no other entity; the player's experience grows by the sum
\* of the experience values of the monsters it kills, and by nothing for
\* the player's own death.
C22_FireballBurnsRadius ==
    [][(pc = "keys" /\ frame'.key = "i"
           /\ \E k \in 1..Len(log') :
                 log'[k] = Msg("The fireball explodes!", "", FIREBALL_RADIUS)) =>
         \E t \in FireballTargets :
            /\ t \in fov
            /\ FireballEffect(objects, objects', events', t)]_vars

\* A fireball has killed the player, who had gained experience from the
\* orcs of earlier fireballs, and has left a living orc outside its radius
\* untouched.
C22_Witness ==
    /\ \E k \in 1..Len(events) : events[k] = Ev("fireball", PLAYER, PLAYER, FIREBALL_DAMAGE)
    /\ ~objects[PLAYER].alive
    /\ Unwrap(objects[PLAYER].fighter).hp > -FIREBALL_DAMAGE
    /\ Unwrap(objects[PLAYER].fighter).xp > 0
    /\ \E i \in DOMAIN objects :
          /\ i /= PLAYER /\ IsSome(objects[i].fighter)
          /\ \A k \in 1..Len(events) : events[k].b /= i

\* C23: only the death of a monster yields an experience award: the player's
\* death yields none, so every monster keeps the experience value it was
\* made with (35 for an orc, 100 for a troll), also the one that kills the
\* player.
C23_NoAwardForPlayerDeath ==
    \A i \in DOMAIN objects :
        i /= PLAYER /\ IsSome(objects[i].fighter) =>
            Unwrap(objects[i].fighter).xp = IF objects[i].name = "orc" THEN 35 ELSE 100

\* ---------------------------------------------------------------------------
\* Spawning: descents through levels of one room in which place_objects
\* draws one monster or one item, with every sample of its weighted choice.
\* ---------------------------------------------------------------------------

\* The deepest level of these runs.
MaxDepthSpawn == 8

\* The longest table given to from_dungeon_level.
MaxTableLen == 3

\* One 6 x 6 room with the start and the stairs at its centre and what
\* place_objects draws in it: one monster or one item, on a tile diagonally
\* above or below the start, with any sample of the level's weighted choice.
SpawnScripts(level) ==
    LET c == StartCentre(level)
        room(monsters, items) ==
            OneRoom(Attempt(c[1] - 3, c[2] - 3, 6, 6, FALSE, monsters, items))
    IN  {s \in {room(<<Draw(c[1] + d, c[2] + d, r)>>, <<>>) :
                    d \in {-1, 1}, r \in 0..(TotalWeight(monster_chances(level)) - 1)}
               \cup {room(<<>>, <<Draw(c[1] + d, c[2] + d, r)>>) :
                    d \in {-1, 1}, r \in 0..(TotalWeight(item_chances(level)) - 1)} :
            \A i \in 1..Len(s) : ValidAttempt(s[i], level)}

InitSpawn == \E script \in SpawnScripts(1) : new_game(script)

NextSpawn ==
    \/ Render
    \/ /\ dungeon_level < MaxDepthSpawn
       /\ \E script \in SpawnScripts(dungeon_level + 1) : KeyDescend(script)

\* new_game, then descents.
SpecSpawn == InitSpawn /\ [][NextSpawn]_vars

\* The tables of at most n pairs with levels 2 and 5 and values 1 and 2, in
\* any order.
RECURSIVE Tables(_)
Tables(n) ==
    IF n = 0 THEN {<<>>}
    ELSE Tables(n - 1) \cup
         {Append(table, Transition(l, v)) :
             table \in {s \in Tables(n - 1) : Len(s) = n - 1}, l \in {2, 5}, v \in {1, 2}}

\* The value of the last of the first i pairs of the table whose level is at
\* most d, and 0 when there is none.
RECURSIVE LastPairValue(_, _, _)
LastPairValue(table, d, i) ==
    IF i = 0 THEN 0
    ELSE IF table[i].level <= d THEN table[i].value
    ELSE LastPairValue(table, d, i - 1)

\* The least level at which place_objects gives the kind a weight above 0.
FirstLevelOf(kind) ==
    CASE kind = "troll" -> 3
      [] kind = "Confuse" -> 2
      [] kind = "Lightning" -> 4
      [] kind = "Sword" -> 4
      [] kind = "Fireball" -> 6
      [] kind = "Shield" -> 8
      [] OTHER -> 1

\* C24: from_dungeon_level yields the value of the last pair of its table
\* whose level is at most the depth, and 0 when there is none; a kind whose
\* weight is 0 at the depth (troll above level 3, confusion above 2,
\* lightning and sword above 4, fireball above 6, shield above 8) is on no
\* level that place_objects has filled.
C24_ZeroWeightNeverSpawned ==
    /\ \A table \in Tables(MaxTableLen) :
          from_dungeon_level(table, dungeon_level)
             = LastPairValue(table, dungeon_level, Len(table))
    /\ \A kind \in {"troll"} :
          dungeon_level < FirstLevelOf(kind) =>
             /\ TotalWeight(monster_chances(dungeon_level)) = 80
             /\ \A i \in DOMAIN objects : objects[i].name /= kind
    /\ \A kind \in {"Confuse", "Lightning", "Sword", "Fireball", "Shield"} :
          dungeon_level < FirstLevelOf(kind) =>
             \A i \in DOMAIN objects : objects[i].item /= Some(kind)

\* On the second level the greatest sample of the item choice has made a
\* scroll of confusion, past the lightning bolt and the fireball, which
\* come before it in the table with weight 0.
C24_Witness ==
    /\ dungeon_level = 2
    /\ \E i \in DOMAIN objects : objects[i].item = Some("Confuse")
    /\ item_chances(dungeon_level)[2].weight = 0
    /\ item_chances(dungeon_level)[3].weight = 0

\* ---------------------------------------------------------------------------
\* Two scrolls of confusion: one at the start of the second level, one at
\* the start of the third, where an orc stands two cells east of the start.
\* ---------------------------------------------------------------------------

\* The deepest level of these runs.
MaxDepthNest == 3

\* The bound on the hit points the player has lost when a frame starts.
MaxWoundsNest == 6

NestAttempt(level) ==
    LET c == StartCentre(level)
        scroll == Draw(c[1], c[2], ItemRoll(level, "Confuse"))
    IN  Attempt(c[1] - 3, c[2] - 3, 6, 6, FALSE,
                IF level = 3 THEN <<Draw(c[1] + 2, c[2], MonsterRoll(level, "orc"))>> ELSE <<>>,
                IF level = 1 THEN <<>> ELSE <<scroll>>)

NestScripts(level) ==
    {OneRoom(a) : a \in {b \in {NestAttempt(level)} : ValidAttempt(b, level)}}

InitNest == \E script \in NestScripts(1) : new_game(script)

NextNest ==
    \/ Wounds(objects) <= MaxWoundsNest /\ Render
    \/ KeyIdle("NumPad5")
    \/ KeyPickUp
    \/ \E choice \in ScrollChoices(inventory), click \in Clicks(objects) :
          KeyInventory(choice, click)
    \/ /\ dungeon_level < MaxDepthNest
       /\ \E script \in NestScripts(dungeon_level + 1) : KeyDescend(script)
    \/ \E dx \in {0, 1}, dy \in {0} : AiStep(dx, dy)

\* new_game, the descents, then any sequence of pick-ups, casts and waits.
SpecNest == InitNest /\ [][NextNest]_vars

\* C25: the AI of every entity is Basic, or Confused with Basic as its
\* previous_ai: confusion is never nested more than once, also when a scroll
\* of confusion is used on a monster that is confused already.
C25_ConfusionNeverNests ==
    \A i \in DOMAIN objects :
        IsSome(objects[i].ai) =>
            \/ Unwrap(objects[i].ai) = AiBasic
            \/ /\ Unwrap(objects[i].ai).kind = "Confused"
               /\ Unwrap(objects[i].ai).previous_ai = AiBasic

\* C26: in a frame whose action took a turn the entities activated are the
\* entities that hold an AI, each once and in increasing order of their
\* ids, and never the player: while the loop runs they are the holders
\* below the id it has reached, and after it all of them; a frame whose
\* action took no turn activates none.
C26_EachAiActivatedOnce ==
    LET A == frame.activated
        H == {i \in DOMAIN objects : IsSome(objects[i].ai)}
    IN  /\ \A k \in 1..Len(A) : A[k] /= PLAYER /\ (k > 1 => A[k - 1] < A[k])
        /\ pc = "ai" =>
              /\ frame.player_action = "TookTurn"
              /\ ai_id \in H
              /\ {A[k] : k \in 1..Len(A)} = {i \in H : i < ai_id}
        /\ pc = "render" /\ frame.player_action = "TookTurn" =>
              {A[k] : k \in 1..Len(A)} = H
        /\ pc = "render" /\ frame.player_action /= "TookTurn" => A = <<>>

\* The three orcs have been activated in one frame, in which one of the
\* first two killed the player: the third was activated after the death and
\* did not attack.
C26_Witness ==
    /\ pc = "render"
    /\ frame.activated = <<1, 2, 3>>
    /\ ~objects[PLAYER].alive
    /\ events = <<>>

\* ---------------------------------------------------------------------------
\* Sight: two rooms joined by a tunnel four tiles long on the row of the
\* start, an orc at the centre of the second room, nine tiles east of the
\* start; the player steps up and down, off the row and back.
\* ---------------------------------------------------------------------------

\* The bound on the hit points the player has lost when a frame starts.
MaxWoundsSight == 6

SightScripts ==
    LET c == StartCentre(1)
        s == TwoRooms(Attempt(c[1] - 3, c[2] - 3, 6, 6, TRUE, <<>>, <<>>),
                      Attempt(c[1] + 6, c[2] - 3, 6, 6, TRUE,
                              <<Draw(c[1] + 9, c[2], MonsterRoll(1, "orc"))>>, <<>>))
    IN  {t \in {s} : \A i \in 1..Len(t) : ValidAttempt(t[i], 1)}

InitSight == \E script \in SightScripts : new_game(script)

SightDirections == {<<0, 1>>, <<0, -1>>}

NextSight ==
    \/ Wounds(objects) <= MaxWoundsSight /\ Render
    \/ \E d \in SightDirections : KeyMove(d[1], d[2])
    \/ KeyIdle("NumPad5")
    \/ AiStep(0, 0)

\* new_game, then steps, waits and the orc's turns.
SpecSight == InitSight /\ [][NextSight]_vars

\* C27: a Basic monster activated after the player's action does what
\* ai_basic does with the field of view of the tile the player stands on
\* when the monster is activated: it moves or attacks only when its own tile
\* is in that field of view, and it attacks only at a distance below 2 from
\* a player with hit points above 0.
C27_BasicAiSeesCurrentPosition ==
    [][(pc = "ai" /\ Unwrap(objects[ai_id].ai).kind = "Basic") =>
         LET now == compute_fov(map, objects[PLAYER].x, objects[PLAYER].y)
             r == ai_take_turn(ai_id, objects, now, inventory, map, 0, 0)
         IN  /\ objects' = r.objects
             /\ events' = r.events
             /\ events' /= <<>> =>
                   /\ DistSq(objects[ai_id], objects[PLAYER].x, objects[PLAYER].y) < 4
                   /\ Unwrap(objects[PLAYER].fighter).hp > 0]_vars

\* ---------------------------------------------------------------------------
\* A confused orc out of sight: on the second level two rooms joined by a
\* tunnel on the row of the start, a scroll of confusion at the start and an
\* orc at the mouth of the tunnel in the second room, seven tiles east.
\* ---------------------------------------------------------------------------

\* The deepest level of these runs.
MaxDepthStumble == 2

\* The bound on the hit points the player has lost when a frame starts.
MaxWoundsStumble == 3

StumbleScripts(level) ==
    LET c == StartCentre(level)
        s == IF level = 1
             THEN OneRoom(Attempt(c[1] - 3, c[2] - 3, 6, 6, FALSE, <<>>, <<>>))
             ELSE TwoRooms(Attempt(c[1] - 3, c[2] - 3, 6, 6, TRUE, <<>>,
                                   <<Draw(c[1], c[2], ItemRoll(level, "Confuse"))>>),
                           Attempt(c[1] + 6, c[2] - 3, 6, 6, TRUE,
                                   <<Draw(c[1] + 7, c[2], MonsterRoll(level, "orc"))>>, <<>>))
    IN  {t \in {s} : \A i \in 1..Len(t) : ValidAttempt(t[i], level)}

InitStumble == \E script \in StumbleScripts(1) : new_game(script)

NextStumble ==
    \/ Wounds(objects) <= MaxWoundsStumble /\ Render
    \/ KeyIdle("NumPad5")
    \/ KeyPickUp
    \/ \E choice \in ScrollChoices(inventory), click \in Clicks(objects) :
          KeyInventory(choice, click)
    \/ /\ dungeon_level < MaxDepthStumble
       /\ \E script \in StumbleScripts(dungeon_level + 1) : KeyDescend(script)
    \/ \E dx \in -1..1, dy \in -1..1 : AiStep(dx, dy)

\* new_game, the descent, then any sequence of pick-ups, casts and waits.
SpecStumble == InitStumble /\ [][NextStumble]_vars

\* The monster id of objs has made one step of at most one tile in each
\* direction to a tile that was not blocked, or has stayed where it was
\* before a blocked tile; nothing else has changed but its ai.
StumbledOnce(id, objs, objs2, m) ==
    /\ \E dx \in -1..1, dy \in -1..1 :
          LET dest == <<objs[id].x + dx, objs[id].y + dy>>
              blocked == \/ dest \notin m
                         \/ \E j \in DOMAIN objs : objs[j].blocks /\ pos(objs[j]) = dest
          IN  pos(objs2[id]) = IF blocked THEN pos(objs[id]) ELSE dest
    /\ objs2 = [objs EXCEPT ![id].x = objs2[id].x, ![id].y = objs2[id].y,
                            ![id].ai = objs2[id].ai]

\* C28: from the cast of confusion with counter N = CONFUSE_NUM_TURNS to
\* its removal the monster has exactly N + 1 confused activations: the k-th
\* finds the counter at N - k + 1, whether the monster is in the field of
\* view or not, makes one step of move_by within one tile (none when the
\* tile is blocked), leaves the counter at N - k and attacks nobody; the
\* next activation removes the confusion and makes no step.
C28_ConfusedActivations ==
    [][/\ \A k \in 1..(CONFUSE_NUM_TURNS + 1) :
             IsActivation(k) =>
                /\ objects[conf.id].ai
                      = Some(AiConfused(Unwrap(conf.prev), CONFUSE_NUM_TURNS - k + 1))
                /\ objects'[conf.id].ai
                      = Some(AiConfused(Unwrap(conf.prev), CONFUSE_NUM_TURNS - k))
                /\ StumbledOnce(conf.id, objects, objects', map)
                /\ events' = <<>>
                /\ log' = <<>>
       /\ IsActivation(CONFUSE_NUM_TURNS + 2) =>
             /\ objects'[conf.id].ai = conf.prev
             /\ objects' = [objects EXCEPT ![conf.id].ai = conf.prev]]_vars

\* The orc has had its N + 1 confused activations and holds the counter -1,
\* on a tile which, with all the tiles around it, is outside the field of
\* view: its last step began and ended out of sight.
C28_Witness ==
    /\ conf.id >= 0 /\ conf.acts = CONFUSE_NUM_TURNS + 1 /\ conf.msgs = 0
    /\ objects[conf.id].ai = Some(AiConfused(AiBasic, -1))
    /\ \A dx \in -1..1, dy \in -1..1 :
          <<objects[conf.id].x + dx, objects[conf.id].y + dy>> \notin fov

\* C29: the top of a frame recomputes the field of view exactly when the
\* player's position differs from the position recorded before the input
\* of the frame before was handled, which on the first frame of a session
\* (no key handled yet) is no tile of the map; it then marks the visible
\* tiles explored; a frame that finds the position as recorded recomputes
\* nothing and marks no tile.  The position is recorded anew in every frame
\* and neither the input nor the monsters' turns change the record.
C29_RecomputeOnlyAfterMove ==
    [][/\ (pc = "render" /\ pc' = "keys") =>
             LET here == pos(objects[PLAYER])
                 moved == previous_player_position /= here
             IN  /\ frame'.recompute = moved
                 /\ frame.key = "" => moved
                 /\ moved => /\ fov' = compute_fov(map, here[1], here[2])
                             /\ explored' = explored \cup fov'
                 /\ ~moved => (fov' = fov /\ explored' = explored)
                 /\ previous_player_position' = here
       /\ pc \in {"keys", "ai"} =>
             /\ previous_player_position' = previous_player_position
             /\ fov' = fov
             /\ frame'.recompute = frame.recompute]_vars

\* The frame after a descent onto the coordinates of the stairs the player
\* came from: nothing was recomputed and no tile of the new level is
\* explored.
C29_Witness ==
    /\ pc = "keys"
    /\ dungeon_level = 2
    /\ ~frame.recompute
    /\ previous_player_position = pos(objects[PLAYER])
    /\ explored = {}
    /\ fov /= compute_fov(map, objects[PLAYER].x, objects[PLAYER].y)

\* ---------------------------------------------------------------------------
\* Crowding: new games and descents into one room in which place_objects
\* draws the tile of one orc at the centre of the room or beside it.
\* ---------------------------------------------------------------------------

\* The deepest level of these runs.
MaxDepthCrowd == 2

\* The bound on the hit points the player has lost when a frame starts.
MaxWoundsCrowd == 6

\* One 6 x 6 room with the start and the stairs at its centre and one orc
\* drawn at the centre, or one or two tiles east of it.
CrowdScripts(level) ==
    LET c == StartCentre(level)
    IN  {s \in {OneRoom(Attempt(c[1] - 3, c[2] - 3, 6, 6, FALSE,
                                <<Draw(c[1] + d, c[2], MonsterRoll(level, "orc"))>>, <<>>)) :
                   d \in 0..2} :
            \A i \in 1..Len(s) : ValidAttempt(s[i], level)}

InitCrowd == \E script \in CrowdScripts(1) : new_game(script)

NextCrowd ==
    \/ Wounds(objects) <= MaxWoundsCrowd /\ Render
    \/ \E d \in TurnDirections : KeyMove(d[1], d[2])
    \/ /\ dungeon_level < MaxDepthCrowd
       /\ \E script \in CrowdScripts(dungeon_level + 1) : KeyDescend(script)
    \/ AiStep(0, 0)

\* new_game, then steps, attacks, the orc's turns and descents.
SpecCrowd == InitCrowd /\ [][NextCrowd]_vars

\* C30: no two blocking entities stand on the same tile and every blocking
\* entity stands on an open tile of the map, from the end of map generation
\* on.
C30_BlockersApart ==
    pc \in {"render", "keys", "ai"} =>
       /\ \A i, j \in DOMAIN objects :
             (i < j /\ objects[i].blocks /\ objects[j].blocks)
                => pos(objects[i]) /= pos(objects[j])
       /\ \A i \in DOMAIN objects : objects[i].blocks => pos(objects[i]) \in map

\* ---------------------------------------------------------------------------
\* The dead player's level-up: four fireball scrolls from the sixth and the
\* seventh level, cast on the eighth beside four trolls.
\* ---------------------------------------------------------------------------

\* The deepest level of these runs.
MaxDepthUndead == 8

\* The bound on the player's wounds at the top of a frame of these runs.
MaxWoundsUndead == 100

\* Levels of one room with the start and the stairs at its centre: 6 x 6 and
\* empty down to the fifth level, with two fireball scrolls at the start on
\* the sixth and the seventh; the eighth is 10 x 10 with four trolls three
\* and four tiles east of the start.
UndeadScript(level) ==
    LET c == StartCentre(level)
        scroll == Draw(c[1], c[2], ItemRoll(level, "Fireball"))
        troll(dx, dy) == Draw(c[1] + dx, c[2] + dy, MonsterRoll(level, "troll"))
    IN  IF level < MaxDepthUndead
        THEN OneRoom(Attempt(c[1] - 3, c[2] - 3, 6, 6, FALSE, <<>>,
                             IF level < 6 THEN <<>> ELSE <<scroll, scroll>>))
        ELSE OneRoom(Attempt(c[1] - 5, c[2] - 5, 10, 10, FALSE,
                             <<troll(3, -1), troll(3, 0), troll(3, 1), troll(4, 0)>>, <<>>))

UndeadScripts(level) ==
    {s \in {UndeadScript(level)} : \A i \in 1..Len(s) : ValidAttempt(s[i], level)}

InitUndead == \E script \in UndeadScripts(1) : new_game(script)

\* The tiles clicked: two tiles to the left and two to the right of the
\* start of the deepest level, both within FIREBALL_RADIUS of the start.
UndeadTargets ==
    {<<StartCentre(MaxDepthUndead)[1] - 2, StartCentre(MaxDepthUndead)[2]>>,
     <<StartCentre(MaxDepthUndead)[1] + 2, StartCentre(MaxDepthUndead)[2]>>}

NextUndead ==
    \/ Wounds(objects) <= MaxWoundsUndead /\ Render
    \/ KeyPickUp
    \/ \E choice \in UsableChoices(inventory), t \in UndeadTargets :
          KeyInventory(choice, Some(t))
    \/ /\ dungeon_level < MaxDepthUndead
       /\ \E script \in UndeadScripts(dungeon_level + 1) : KeyDescend(script)
    \/ AiStep(0, 0)

\* new_game, then pick-ups, fireballs, descents and the trolls' turns.
SpecUndead == InitUndead /\ [][NextUndead]_vars

\* C31: an entity with a fighter is alive exactly when its hit points are
\* above 0; the hit points of the dead player are never above 0 again.
C31_AliveIffHpPositive ==
    \A i \in DOMAIN objects :
        IsSome(objects[i].fighter) =>
            (objects[i].alive <=> Unwrap(objects[i].fighter).hp > 0)

\* ---------------------------------------------------------------------------
\* Slots: on each level a healing potion at the start and an orc two tiles
\* east of it; the player picks up, uses and drops, kills the orc and
\* descends.
\* ---------------------------------------------------------------------------

\* The deepest level of these runs.
MaxDepthSlots == 2

\* The bound on the hit points the player has lost when a frame starts.
MaxWoundsSlots == 6

SlotsScripts(level) ==
    LET c == StartCentre(level)
    IN  {s \in {OneRoom(Attempt(c[1] - 3, c[2] - 3, 6, 6, FALSE,
                                <<Draw(c[1] + 2, c[2], MonsterRoll(level, "orc"))>>,
                                <<Draw(c[1], c[2], ItemRoll(level, "Heal"))>>))} :
            \A i \in 1..Len(s) : ValidAttempt(s[i], level)}

InitSlots == \E script \in SlotsScripts(1) : new_game(script)

NextSlots ==
    \/ Wounds(objects) <= MaxWoundsSlots /\ Render
    \/ KeyMove(1, 0)
    \/ KeyPickUp
    \/ \E choice \in UsableChoices(inventory) : KeyInventory(choice, None)
    \/ \E choice \in MenuChoices(inventory) : KeyDrop(choice)
    \/ /\ dungeon_level < MaxDepthSlots
       /\ \E script \in SlotsScripts(dungeon_level + 1) : KeyDescend(script)
    \/ AiStep(0, 0)

\* new_game, then pick-ups, uses, drops, attacks, descents and the orc's
\* turns.
SpecSlots == InitSlots /\ [][NextSlots]_vars

\* C32: slot 0 of the objects is the player and no other slot is: neither
\* the swap_remove of a pick-up nor the truncate of make_map removes the
\* player or moves it to another slot.
C32_PlayerInSlotZero ==
    /\ VecLen(objects) >= 1
    /\ objects[PLAYER].name = "player"
    /\ IsSome(objects[PLAYER].fighter)
    /\ Unwrap(objects[PLAYER].fighter).on_death = "Player"
    /\ IsNone(objects[PLAYER].item)
    /\ \A i \in DOMAIN objects : i /= PLAYER => objects[i].name /= "player"

\* On the second level, beside the remains of the orc, a pick-up has just
\* moved the last object into the slot of the item picked up: the stairs
\* are no longer the last object.
C32_Witness ==
    /\ dungeon_level = 2
    /\ frame.key = "g"
    /\ \E k \in 1..Len(log) : log[k].text = "You picked up!"
    /\ \E i \in DOMAIN objects : objects[i].name = "remains of orc"
    /\ \E i \in DOMAIN objects :
          objects[i].name = "stairs" /\ i < VecLen(objects) - 1

\* ---------------------------------------------------------------------------
\* The border: the first level is one room in the corner (0, 0) of the map,
\* the second one room in the opposite corner with a scroll of confusion at
\* its centre and an orc in its last cell; the player walks right and down.
\* ---------------------------------------------------------------------------

\* The deepest level of these runs.
MaxDepthBorder == 2

\* The bound on the hit points the player has lost when a frame starts.
MaxWoundsBorder == 3

\* The rooms drawn: at (0, 0) on the first level; below it as far right and
\* down as the draws of make_map go, and one tile farther, which its ranges
\* exclude.
BorderScripts(level) ==
    LET far(k) == Attempt(MAP_WIDTH - ROOM_MIN_SIZE - k, MAP_HEIGHT - ROOM_MIN_SIZE - k,
                          ROOM_MIN_SIZE, ROOM_MIN_SIZE, FALSE,
                          <<Draw(MAP_WIDTH - k - 1, MAP_HEIGHT - k - 1, MonsterRoll(level, "orc"))>>,
                          <<Draw(MAP_WIDTH - k - 3, MAP_HEIGHT - k - 3, ItemRoll(level, "Confuse"))>>)
        near == Attempt(0, 0, ROOM_MIN_SIZE, ROOM_MIN_SIZE, FALSE, <<>>, <<>>)
    IN  {s \in (IF level = 1 THEN {OneRoom(near)} ELSE {OneRoom(far(k)) : k \in 0..1}) :
            \A i \in 1..Len(s) : ValidAttempt(s[i], level)}

InitBorder == \E script \in BorderScripts(1) : new_game(script)

BorderDirections == {<<1, 0>>, <<0, 1>>}

NextBorder ==
    \/ Wounds(objects) <= MaxWoundsBorder /\ Render
    \/ \E d \in BorderDirections : KeyMove(d[1], d[2])
    \/ KeyPickUp
    \/ \E choice \in ScrollChoices(inventory), click \in Clicks(objects) :
          KeyInventory(choice, click)
    \/ /\ dungeon_level < MaxDepthBorder
       /\ \E script \in BorderScripts(dungeon_level + 1) : KeyDescend(script)
    \/ \E dx \in {-1, 0, 1} : AiStep(dx, 0)

\* new_game, then steps to the right and down, attacks, the scroll, the
\* descent and the orc's turns, its confused steps along its row.
SpecBorder == InitBorder /\ [][NextBorder]_vars

\* The tile is in the grid and not on its outer border.
StrictlyInside(c) ==
    c[1] \in 1..(MAP_WIDTH - 2) /\ c[2] \in 1..(MAP_HEIGHT - 2)

\* C33: once the map is generated every carved tile lies strictly inside
\* the grid, so every tile of the outer border is blocked; every entity
\* stands strictly inside the grid, so every tile move_by can ask is_blocked
\* about, one step from an entity in any direction, is a tile of the grid.
C33_BorderBlocked ==
    pc \in {"render", "keys", "ai"} =>
       /\ \A c \in map : StrictlyInside(c)
       /\ \A x \in 0..(MAP_WIDTH - 1) :
             is_blocked(x, 0, map, objects) /\ is_blocked(x, MAP_HEIGHT - 1, map, objects)
       /\ \A y \in 0..(MAP_HEIGHT - 1) :
             is_blocked(0, y, map, objects) /\ is_blocked(MAP_WIDTH - 1, y, map, objects)
       /\ \A i \in DOMAIN objects :
             /\ StrictlyInside(pos(objects[i]))
             /\ \A dx \in -1..1, dy \in -1..1 :
                   InMap(<<objects[i].x + dx, objects[i].y + dy>>)

\* In the last cell of the far room the player has pressed Right against
\* the border and stayed, while the orc is confused.
C33_Witness ==
    /\ pos(objects[PLAYER]) = <<MAP_WIDTH - 2, MAP_HEIGHT - 2>>
    /\ frame.key = "Right"
    /\ previous_player_position = pos(objects[PLAYER])
    /\ \E i \in DOMAIN objects :
          IsSome(objects[i].ai) /\ Unwrap(objects[i].ai).kind = "Confused"

\* ---------------------------------------------------------------------------
\* The callers of mut_two: the crowded room, with the 'g' key, which passes
\* a turn without moving the player off the orc's tile.
\* ---------------------------------------------------------------------------

\* The deepest level of these runs.
MaxDepthMutTwo == 2

\* The bound on the hit points the player has lost when a frame starts.
MaxWoundsMutTwo == 6

InitMutTwo == \E script \in CrowdScripts(1) : new_game(script)

NextMutTwo ==
    \/ Wounds(objects) <= MaxWoundsMutTwo /\ Render
    \/ \E d \in TurnDirections : KeyMove(d[1], d[2])
    \/ KeyPickUp
    \/ /\ dungeon_level < MaxDepthMutTwo
       /\ \E script \in CrowdScripts(dungeon_level + 1) : KeyDescend(script)
    \/ AiStep(0, 0)

\* new_game, then steps, attacks, turns passed in place, the orc's turns and
\* descents.
SpecMutTwo == InitMutTwo /\ [][NextMutTwo]_vars

\* C34: the two indices given to mut_two differ: every attack is between
\* the player and another entity, the attacker and the target never the
\* same; the player holds no ai, so the entity the monsters' loop activates
\* is never the player.
C34_MutTwoIndicesDiffer ==
    /\ \A k \in 1..Len(events) :
          events[k].ev = "attack" =>
             /\ events[k].a /= events[k].b
             /\ events[k].a = PLAYER \/ events[k].b = PLAYER
    /\ pc = "ai" => ai_id /= PLAYER
    /\ \A k \in 1..Len(frame.activated) : frame.activated[k] /= PLAYER
    /\ pc \in {"render", "keys", "ai"} => IsNone(objects[PLAYER].ai)

\* The orc that stands on the player's tile has attacked the player.
C34_Witness ==
    /\ \E k \in 1..Len(events) :
          /\ events[k].ev = "attack" /\ events[k].b = PLAYER
          /\ pos(objects[events[k].a]) = pos(objects[PLAYER])
    /\ objects[PLAYER].alive

\* ---------------------------------------------------------------------------
\* The dead player's keys: a healing potion on each level from the second
\* on and two trolls on the deepest, which kill the player; after the death,
\* every key of the game.
\* ---------------------------------------------------------------------------

\* The deepest level of these runs.
MaxDepthDead == 3

\* The bound on the hit points the player has lost when a frame starts.
MaxWoundsDead == 100

\* Levels of one 6 x 6 room with the start and the stairs at its centre:
\* empty on the first level, with a healing potion at the start from the
\* second on, and on the deepest two trolls, two tiles east and two tiles
\* south of the start.
DeadScript(level) ==
    LET c == StartCentre(level)
        potion == Draw(c[1], c[2], ItemRoll(level, "Heal"))
        troll(dx, dy) == Draw(c[1] + dx, c[2] + dy, MonsterRoll(level, "troll"))
    IN  OneRoom(Attempt(c[1] - 3, c[2] - 3, 6, 6, FALSE,
                        IF level < MaxDepthDead THEN <<>> ELSE <<troll(2, 0), troll(0, 2)>>,
                        IF level < 2 THEN <<>> ELSE <<potion>>))

DeadScripts(level) ==
    {s \in {DeadScript(level)} : \A i \in 1..Len(s) : ValidAttempt(s[i], level)}

InitDead == \E script \in DeadScripts(1) : new_game(script)

NextDead ==
    \/ Wounds(objects) <= MaxWoundsDead /\ Render
    \/ KeyMove(1, 0)
    \/ KeyPickUp
    \/ \E choice \in UsableChoices(inventory) : KeyInventory(choice, None)
    \/ /\ pos(objects[PLAYER]) = StartCentre(dungeon_level)
       /\ \E choice \in MenuChoices(inventory) : KeyDrop(choice)
    \/ /\ dungeon_level < MaxDepthDead \/ ~objects[PLAYER].alive
       /\ \E script \in DeadScripts(dungeon_level + 1) : KeyDescend(script)
    \/ KeyExit("Escape", TRUE)
    \/ AiStep(0, 0)

\* new_game, then pick-ups, descents, potions, steps, drops, the troll's
\* turns and the Escape key.
SpecDead == InitDead /\ [][NextDead]_vars

\* A frame that starts, or waits for its key, with the player dead.
DeadFrame == pc \in {"render", "keys"} /\ ~objects[PLAYER].alive

\* C35: from the frame after the player's death on, no key moves the player,
\* attacks, picks up, uses, drops or descends and no monster is activated:
\* the positions, the monsters' fighters and ais, the inventory, the map and
\* the level stay as they are.
C35_DeadPlayerFreezes ==
    [][DeadFrame =>
          /\ pc' \in {"render", "keys", "exit"}
          /\ frame'.activated = <<>>
          /\ events' = <<>>
          /\ DOMAIN objects' = DOMAIN objects
          /\ \A i \in DOMAIN objects :
                /\ pos(objects'[i]) = pos(objects[i])
                /\ i /= PLAYER => /\ objects'[i].fighter = objects[i].fighter
                                  /\ objects'[i].ai = objects[i].ai
          /\ inventory' = inventory
          /\ map' = map
          /\ dungeon_level' = dungeon_level]_vars

\* The dead player, with a potion left, on the stairs and on a potion, the
\* troll beside it, has pressed '>'.
C35_Witness ==
    /\ ~objects[PLAYER].alive
    /\ ~frame.player_alive
    /\ frame.key = ">"
    /\ inventory /= <<>>
    /\ \E i \in DOMAIN objects :
          objects[i].name = "stairs" /\ pos(objects[i]) = pos(objects[PLAYER])
    /\ \E i \in DOMAIN objects :
          IsSome(objects[i].item) /\ pos(objects[i]) = pos(objects[PLAYER])
    /\ \E i \in DOMAIN objects :
          /\ IsSome(objects[i].ai)
          /\ DistSq(objects[i], objects[PLAYER].x, objects[PLAYER].y) < 4


----------------------------------------------------------------------------
(* main_menu: the end of a continued game *)

\* C36: when the play session started by "Continue last game" ends,
\* main_menu shows the menu again: it does not load the file again and it
\* starts no further session.
C36_ContinuePlaysOnce ==
    [][(pc = "exit" /\ session.choice = 1)
          => /\ pc' = "menu"
             /\ session'.loads = session.loads]_vars

====
